---- MODULE Spec2Model ----
(***************************************************************************)
(* Verification model of the pitch-sync backend: the circuit breaker of    *)
(* backend/utils/resilience.py, the scoring engine of                      *)
(* backend/services/scoring.py and the session routes of                   *)
(* backend/api/routes/session.py over the store of                         *)
(* backend/services/state.py.                                              *)
(***************************************************************************)
EXTENDS Integers, Sequences, FiniteSets, TLC

(***************************************************************************)
(* Bounds of the model.                                                    *)
(***************************************************************************)
MaxThreshold == 3
MaxTimeout == 2
MaxClock == 5
MaxFailures == 5
MaxTime == 3

(***************************************************************************)
(* Circuit breaker (resilience.py).  Each method is one step: the methods  *)
(* contain no suspension point.                                            *)
(***************************************************************************)
VARIABLES
    circuit,        \* the CircuitBreaker dataclass fields
    now,            \* the wall clock the breaker and the routes read
    cbOp,           \* history: the method called last
    cbRet,          \* history: what the last can_execute() returned
    cbPrev,         \* history: circuit.state before the last method call
    cbConsecutive,  \* history: record_failure calls since the last record_success
    cbProbeFailed   \* history: time of the last failure reported in half_open

cbVars == <<circuit, cbOp, cbRet, cbPrev, cbConsecutive, cbProbeFailed>>

VARIABLES
    scIn,     \* the arguments of one calculate_phase_score call
    scOut,    \* its result, NoResult before the call
    scPass    \* determine_pass_threshold on the same ai_score and retries

scVars == <<scIn, scOut, scPass>>

VARIABLES
    store,    \* the sessiondata table: session_id -> row
    pending,  \* the submit_phase request suspended at the judge call, if any
    synth,    \* the final_synthesis request between its read and its write, if any
    editing,  \* per synthesis route: its request between its read and its write, if any
    resp,     \* history: the response of the last request handled
    cfg       \* the deployment: the vault's phase definitions and the settings

sessVars == <<store, pending, synth, editing, resp, cfg>>

VARIABLES
    rt,       \* per caller: its call through a retry_with_backoff wrapper
    rtcfg,    \* the decorator's arguments: max_retries and whether a breaker is bound
    db,       \* one session-store operation running under _db_retry
    gc,       \* per caller: its call of ClaudeClient.generate_content
    gcLog,    \* history: the run of failed judge calls and when the last one failed
    pl,       \* the last run of evaluate_phase: what the judge answered, what came out
    ev,       \* per caller: its request to a route that calls the judge
    others    \* AI pool workers held by tasks of requests not followed one by one

judgeVars == <<gc, gcLog, pl>>

poolVars == <<ev, others>>

callVars == <<rt, rtcfg, db, judgeVars, poolVars>>

vars == <<now, cbVars, scVars, sessVars, callVars>>

NoTime == -1

CircuitState == {"closed", "open", "half_open"}

CircuitBreaker(threshold, timeout) ==
    [failure_threshold |-> threshold, recovery_timeout |-> timeout,
     state |-> "closed", failures |-> 0, last_failure_time |-> NoTime]

\* record_failure: `if self.failures >= self.failure_threshold`
ThresholdReached_off_by_one(failures, threshold) == failures > threshold

ThresholdReached(failures, threshold) == failures >= threshold

\* record_failure: `self.last_failure_time = datetime.now()`
StampFailure_first_only(cb, t) ==
    IF cb.last_failure_time = NoTime THEN t ELSE cb.last_failure_time

StampFailure(cb, t) == t

\* can_execute in state open: `elapsed >= self.recovery_timeout`
CooldownOver(cb, t) ==
    /\ cb.last_failure_time # NoTime
    /\ t - cb.last_failure_time >= cb.recovery_timeout

\* The breaker after record_success().
AfterSuccess(cb) == [cb EXCEPT !.failures = 0, !.state = "closed"]

\* The breaker after record_failure() at time t.
AfterFailure(cb, t) ==
    LET n == cb.failures + 1
    IN [cb EXCEPT !.failures = n,
                  !.last_failure_time = StampFailure(cb, t),
                  !.state = IF ThresholdReached(n, cb.failure_threshold)
                            THEN "open" ELSE cb.state]

\* The value can_execute() returns at time t.
CanExecuteResult(cb, t) ==
    CASE cb.state = "closed" -> TRUE
      [] cb.state = "open" -> CooldownOver(cb, t)
      [] OTHER -> TRUE

\* The breaker after can_execute() at time t.
AfterCanExecute(cb, t) ==
    IF cb.state = "open" /\ CooldownOver(cb, t)
    THEN [cb EXCEPT !.state = "half_open"]
    ELSE cb

record_success ==
    /\ circuit' = AfterSuccess(circuit)
    /\ cbOp' = "record_success"
    /\ cbPrev' = circuit.state
    /\ cbConsecutive' = 0
    /\ cbProbeFailed' = NoTime
    /\ UNCHANGED <<now, cbRet, scVars, sessVars, callVars>>

record_failure ==
    /\ circuit.failures < MaxFailures
    /\ circuit' = AfterFailure(circuit, now)
    /\ cbOp' = "record_failure"
    /\ cbPrev' = circuit.state
    /\ cbConsecutive' = cbConsecutive + 1
    /\ cbProbeFailed' = IF circuit.state = "half_open" THEN now ELSE cbProbeFailed
    /\ UNCHANGED <<now, cbRet, scVars, sessVars, callVars>>

can_execute ==
    /\ circuit' = AfterCanExecute(circuit, now)
    /\ cbRet' = CanExecuteResult(circuit, now)
    /\ cbOp' = "can_execute"
    /\ cbPrev' = circuit.state
    /\ UNCHANGED <<now, cbConsecutive, cbProbeFailed, scVars, sessVars, callVars>>

\* Time passes between two calls.
ClockTick ==
    /\ now < MaxClock
    /\ now' = now + 1
    /\ cbOp' = "tick"
    /\ UNCHANGED <<circuit, cbRet, cbPrev, cbConsecutive, cbProbeFailed, scVars, sessVars, callVars>>

(***************************************************************************)
(* Scoring engine (scoring.py).  Floats are held in fixed point: an        *)
(* ai_score in hundredths, a phase weight in ten-thousandths, points in    *)
(* hundredths of a point; the products below are exact.                    *)
(***************************************************************************)
ScoreUnit == 100
WeightUnit == 10000
PointUnit == 100

AI_QUALITY_MAX_POINTS == 1000
RETRY_PENALTY_POINTS == 0
MAX_RETRIES == 3
TIME_PENALTY_MAX_POINTS == 150
TOKEN_EFFICIENCY_BONUS_PERCENT == 5
OPTIMAL_TOKEN_MIN == 100
OPTIMAL_TOKEN_MAX == 600
PASS_THRESHOLD == 65
MERCY_THRESHOLD == 45
MERCY_RETRY_COUNT == 2
OVERTIME_BLOCK_SECONDS == 600
OVERTIME_BLOCK_POINTS == 10
DEFAULT_WEIGHT == 3300
DEFAULT_TIME_LIMIT == 300
DEFAULT_HINT_PENALTY == 50

Min(a, b) == IF a <= b THEN a ELSE b
Max(a, b) == IF a >= b THEN a ELSE b

\* math.ceil(a / b) for a >= 0, b > 0
CeilDiv(a, b) == (a + b - 1) \div b

\* Python's round(n / d) for n >= 0, d > 0: half goes to the even neighbour.
RoundHalfUp(n, d) == (2 * n + d) \div (2 * d)

RoundFloor(n, d) == n \div d

RoundHalfEven(n, d) ==
    LET q == n \div d
        r == n % d
    IN IF 2 * r < d THEN q
       ELSE IF 2 * r > d THEN q + 1
       ELSE IF q % 2 = 0 THEN q ELSE q + 1

\* scoring.py 39-48, in points
TimePenalty_whole_blocks(duration_seconds, time_limit) ==
    IF duration_seconds > time_limit
    THEN Min(TIME_PENALTY_MAX_POINTS,
             ((duration_seconds - time_limit) \div OVERTIME_BLOCK_SECONDS)
                * OVERTIME_BLOCK_POINTS)
    ELSE 0

TimePenalty(duration_seconds, time_limit) ==
    IF duration_seconds > time_limit
    THEN Min(TIME_PENALTY_MAX_POINTS,
             CeilDiv(duration_seconds - time_limit, OVERTIME_BLOCK_SECONDS)
                * OVERTIME_BLOCK_POINTS)
    ELSE 0

\* _calculate_efficiency_bonus, in hundredths of a point
EfficiencyBonus(token_count, base_points) ==
    IF OPTIMAL_TOKEN_MIN <= token_count /\ token_count <= OPTIMAL_TOKEN_MAX
    THEN (base_points * TOKEN_EFFICIENCY_BONUS_PERCENT) \div 100
    ELSE 0

\* ai_score * AI_QUALITY_MAX_POINTS, in hundredths of a point
AiQualityPoints(ai_score) == (ai_score * AI_QUALITY_MAX_POINTS * PointUnit) \div ScoreUnit

\* raw_score of calculate_phase_score, in hundredths of a point
RawScore(ai_score, retries, duration_seconds, time_limit, token_count, hint_penalty) ==
    AiQualityPoints(ai_score)
      - TimePenalty(duration_seconds, time_limit) * PointUnit
      - retries * RETRY_PENALTY_POINTS * PointUnit
      - hint_penalty * PointUnit
      + EfficiencyBonus(token_count, AiQualityPoints(ai_score))

\* max_phase_score = AI_QUALITY_MAX_POINTS * phase_weight, in units of
\* 1 / (PointUnit * WeightUnit) of a point
MaxPhaseScore(weight) == AI_QUALITY_MAX_POINTS * weight * PointUnit

\* weighted_score of calculate_phase_score, in whole points (scoring.py 56-64)
WeightedScore(raw, weight) ==
    RoundHalfEven(Min(Max(0, raw * weight), MaxPhaseScore(weight)),
                  PointUnit * WeightUnit)

\* calculate_phase_score: the score and the metrics the claims read
calculate_phase_score(ai_score, retries, duration_seconds, token_count, weight, time_limit, hint_penalty) ==
    LET raw == RawScore(ai_score, retries, duration_seconds, time_limit,
                        token_count, hint_penalty)
    IN [weighted_score |-> WeightedScore(raw, weight),
        raw_score |-> raw,
        ai_score |-> ai_score,
        retries |-> retries,
        duration_seconds |-> duration_seconds,
        time_penalty |-> TimePenalty(duration_seconds, time_limit),
        hint_penalty |-> hint_penalty,
        efficiency_bonus |-> EfficiencyBonus(token_count, AiQualityPoints(ai_score))]

\* determine_pass_threshold (scoring.py 156-168)
determine_pass_threshold_late_mercy(ai_score, retries) ==
    \/ ai_score >= PASS_THRESHOLD
    \/ (retries > MERCY_RETRY_COUNT /\ ai_score >= MERCY_THRESHOLD)

determine_pass_threshold(ai_score, retries) ==
    \/ ai_score >= PASS_THRESHOLD
    \/ (retries >= MERCY_RETRY_COUNT /\ ai_score >= MERCY_THRESHOLD)

(***************************************************************************)
(* The scoring function applied to one drawn input.                        *)
(***************************************************************************)
NoResult == [weighted_score |-> 0, called |-> FALSE]

MaxScoredRetries == 3

AiScores == {0, 30, 44, 45, 50, 64, 65, 70, 100}
Durations == {60, 299, 300, 301, 900, 901, 1500, 9300, 100000}
TokenCounts == {99, 100, 300, 600, 601}
HintPenalties == {0, 50, 1500}
Weights == {5, 15, 25, 2500, 3300, 3335, 3337, 10000}
TimeLimits == {300}

ScoreInputs ==
    [ai_score : AiScores, retries : 0..MaxScoredRetries, duration_seconds : Durations,
     token_count : TokenCounts, weight : Weights, time_limit : TimeLimits,
     hint_penalty : HintPenalties]

ScoreCall ==
    /\ scOut = NoResult
    /\ scOut' = [called |-> TRUE] @@
                calculate_phase_score(scIn.ai_score, scIn.retries,
                    scIn.duration_seconds, scIn.token_count, scIn.weight,
                    scIn.time_limit, scIn.hint_penalty)
    /\ UNCHANGED <<scIn, scPass, now, cbVars, sessVars, callVars>>

NoVerdict == [called |-> FALSE]

PassCall ==
    /\ scPass = NoVerdict
    /\ scPass' = [called |-> TRUE,
                  passed |-> determine_pass_threshold(scIn.ai_score, scIn.retries)]
    /\ UNCHANGED <<scIn, scOut, now, cbVars, sessVars, callVars>>


(***************************************************************************)
(* Session state (models/session.py) and the store (services/state.py).    *)
(* Python dicts are functions whose DOMAIN holds the keys present.         *)
(***************************************************************************)
EmptyDict == [k \in {} |-> 0]

Get(d, k, default) == IF k \in DOMAIN d THEN d[k] ELSE default

Put(d, k, v) == [x \in DOMAIN d \cup {k} |-> IF x = k THEN v ELSE d[x]]

RECURSIVE SumValues(_)
SumValues(d) ==
    IF DOMAIN d = {} THEN 0
    ELSE LET k == CHOOSE x \in DOMAIN d : TRUE
         IN d[k] + SumValues([x \in DOMAIN d \ {k} |-> d[x]])

\* calculate_total_score (scoring.py 115-128); the values are whole points
TotalUnclamped(phase_scores) == SumValues(phase_scores)

calculate_total_score(phase_scores) ==
    IF DOMAIN phase_scores = {} THEN 0 ELSE Min(1000, SumValues(phase_scores))

\* _db_to_domain (state.py 82-90): total_score is recomputed, not read
TrustPersistedTotal(row) == row

_db_to_domain(row) ==
    [row EXCEPT !.total_score =
        IF DOMAIN row.phase_scores # {} THEN Min(1000, SumValues(row.phase_scores)) ELSE 0]

\* PhaseMetric as stored: the fields of calculate_phase_score's metrics
PhaseMetric(r) ==
    [ai_score |-> r.ai_score, weighted_score |-> r.weighted_score,
     retries |-> r.retries, duration_seconds |-> r.duration_seconds,
     hint_penalty |-> r.hint_penalty]

DefaultMetric ==
    [ai_score |-> 0, weighted_score |-> 0, retries |-> 0, duration_seconds |-> 0,
     hint_penalty |-> 0]

PhaseResponse(qid, a, hint) == [question_id |-> qid, a |-> a, hint_used |-> hint]

PhaseData(status, responses, metrics, history) ==
    [status |-> status, responses |-> responses, metrics |-> metrics,
     history |-> history]

\* answers_hash is None, or the digest of the answers it was taken of;
\* image_prompt stands for final_output.image_prompt being non-empty
NoHash == [set |-> FALSE, of |-> <<>>]

\* SessionState(team_id=..., usecase=...) as create_session stores it;
\* was_current is a history field, not a column: the seconds each phase has
\* been the session's current_phase, kept by Elapse
SessionState(team, usecase, created) ==
    [team_id |-> team, usecase |-> usecase, created_at |-> created,
     current_phase |-> 1, phases |-> EmptyDict, phase_scores |-> EmptyDict,
     total_score |-> 0, total_tokens |-> 0, phase_start_times |-> EmptyDict,
     phase_elapsed_seconds |-> EmptyDict, is_complete |-> FALSE,
     answers_hash |-> NoHash, image_prompt |-> FALSE,
     was_current |-> EmptyDict]

\* get_session / update_session on the single table
get_session(sid) == _db_to_domain(store[sid])

update_session(sid, session) == [store EXCEPT ![sid] = session]

(***************************************************************************)
(* The deployment: phases.json of the session's usecase and the settings.  *)
(***************************************************************************)
NumPhases == 2
PhaseNumbers == 1..NumPhases
QuestionIds == <<"q1">>
NoWeight == 0
SKEW_TOLERANCE == 5

\* phase_def.get("weight", 0.33)
PhaseWeight(p) == IF cfg.weight[p] = NoWeight THEN DEFAULT_WEIGHT ELSE cfg.weight[p]

\* phase_def.get("time_limit_seconds", ...)
PhaseTimeLimit(p) == cfg.time_limit

\* q_def.get("hint_penalty", 50.0), summed over the responses with hint_used
RECURSIVE HintPenalty(_, _)
HintPenalty(responses, i) ==
    IF i > Len(responses) THEN 0
    ELSE (IF responses[i].hint_used /\ i <= Len(QuestionIds)
          THEN DEFAULT_HINT_PENALTY ELSE 0) + HintPenalty(responses, i + 1)

\* total_chars // 4 with total_chars = sum(len(r.a))
AnswerChars(a) == CASE a = "" -> 0 [] a = "brief" -> 8 [] OTHER -> 1200

RECURSIVE TotalChars(_, _)
TotalChars(responses, i) ==
    IF i > Len(responses) THEN 0
    ELSE AnswerChars(responses[i].a) + TotalChars(responses, i + 1)

TokenCount(responses) == TotalChars(responses, 1) \div 4

\* [(r.a, r.hint_used) for r in responses]
RECURSIVE AnswerPairs(_)
AnswerPairs(responses) ==
    IF responses = <<>> THEN <<>>
    ELSE <<<<Head(responses).a, Head(responses).hint_used>>>> \o AnswerPairs(Tail(responses))

\* _get_retry_info (session.py 776-818): the retries count
RetriesOfStatus_ignoring_current(pdata) == Len(pdata.history)

RetriesOfStatus(pdata) ==
    Len(pdata.history) + (IF pdata.status \in {"passed", "failed"} THEN 1 ELSE 0)

_get_retry_info(session, p) ==
    IF p \in DOMAIN session.phases THEN RetriesOfStatus(session.phases[p]) ELSE 0

\* accumulated + (now - segment start), session.py 627-636
TotalElapsed(session, p, t) ==
    Get(session.phase_elapsed_seconds, p, 0)
       + (t - Get(session.phase_start_times, p, t))

(***************************************************************************)
(* Routes of api/routes/session.py.  A handler without a suspension point  *)
(* is one step; submit_phase is split at its await of the judge.           *)
(***************************************************************************)
NoPhase == 0
NoRequest == [active |-> FALSE]
SynthesisRoutes == {"curate_prompt", "submit_pitch_image"}
NoEditing == [r \in SynthesisRoutes |-> NoRequest]
NoResponse == [op |-> "none"]

MaxSessions == 2
Teams == {"team"}
Usecases == {"u1", "u2"}

\* get_latest_session_for_team: the team's row created last
TeamSessions(team) == {s \in DOMAIN store : store[s].team_id = team}

get_latest_session_for_team_oldest(team) ==
    CHOOSE s \in TeamSessions(team) :
        \A o \in TeamSessions(team) :
            \/ store[s].created_at < store[o].created_at
            \/ (store[o].created_at = store[s].created_at /\ s <= o)

get_latest_session_for_team(team) ==
    CHOOSE s \in TeamSessions(team) :
        \A o \in TeamSessions(team) :
            \/ store[o].created_at < store[s].created_at
            \/ (store[o].created_at = store[s].created_at /\ o <= s)

\* init_session, resume branch (session.py 48-100)
InitResume(sid) ==
    LET existing == get_session(sid)
        key == existing.current_phase
    IN IF key \in DOMAIN existing.phase_start_times
       THEN store
       ELSE update_session(sid,
               [existing EXCEPT !.phase_start_times = Put(@, key, now)])

\* init_session, create branch (session.py 132-145)
InitCreate(sid, team, usecase) ==
    LET session == SessionState(team, usecase, now)
    IN [s \in DOMAIN store \cup {sid} |->
          IF s = sid
          THEN [session EXCEPT !.phase_start_times = Put(@, 1, now)]
          ELSE store[s]]

init_session(team, usecase_id) ==
    LET has == TeamSessions(team) # {}
        existing == get_latest_session_for_team(team)
        should_resume ==
            has /\ (usecase_id = "" \/ usecase_id = store[existing].usecase)
        sid == Cardinality(DOMAIN store) + 1
        usecase == IF usecase_id \in Usecases THEN usecase_id
                   ELSE CHOOSE u \in Usecases : TRUE
    IN /\ should_resume \/ Cardinality(DOMAIN store) < MaxSessions
       /\ store' = IF should_resume THEN InitResume(existing)
                   ELSE InitCreate(sid, team, usecase)
       /\ resp' = [op |-> "init", created |-> ~should_resume,
                   sid |-> IF should_resume THEN existing ELSE sid,
                   team |-> team, usecase_id |-> usecase_id]
       /\ UNCHANGED <<pending, synth, editing, cfg, now, cbVars, scVars, callVars>>

\* start_phase STEP 1: the leaving phase's accumulated time (session.py 222-245)
ClampElapsed(old_total, max_duration, report) ==
    IF report - old_total > max_duration + SKEW_TOLERANCE
    THEN old_total + max_duration
    ELSE report

LeavingElapsed(session, leaving, report, t) ==
    IF leaving = NoPhase \/ report = NoTime
    THEN session.phase_elapsed_seconds
    ELSE IF leaving \in DOMAIN session.phase_start_times
         THEN Put(session.phase_elapsed_seconds, leaving,
                  ClampElapsed(Get(session.phase_elapsed_seconds, leaving, 0),
                               t - session.phase_start_times[leaving], report))
         ELSE Put(session.phase_elapsed_seconds, leaving, report)

\* start_phase STEP 1: the leaving phase's draft responses (session.py 247-280)
LeavingDraft(session, leaving, draft) ==
    IF leaving = NoPhase \/ draft = <<>> \/ leaving \notin PhaseNumbers
    THEN session.phases
    ELSE IF leaving \notin DOMAIN session.phases
         THEN Put(session.phases, leaving,
                  PhaseData("in_progress", draft, DefaultMetric, <<>>))
         ELSE IF session.phases[leaving].status # "passed"
              THEN Put(session.phases, leaving,
                       [session.phases[leaving] EXCEPT !.responses = draft])
              ELSE session.phases

\* start_phase STEP 2 and 3 (session.py 282-307)
EnterPhase_never_reset(session, p, t) ==
    [session EXCEPT
       !.phase_start_times = Put(@, p, t),
       !.phase_elapsed_seconds = IF p \notin DOMAIN @ THEN Put(@, p, 0) ELSE @,
       !.current_phase = p]

EnterPhase(session, p, t) ==
    LET is_retry == p \in DOMAIN session.phases /\ session.phases[p].status = "failed"
    IN [session EXCEPT
          !.phase_start_times = Put(@, p, t),
          !.phase_elapsed_seconds =
              IF is_retry \/ p \notin DOMAIN @ THEN Put(@, p, 0) ELSE @,
          !.current_phase = p]

start_phase(sid, p, leaving, report, draft) ==
    LET session == get_session(sid)
        left == [session EXCEPT
                   !.phase_elapsed_seconds = LeavingElapsed(session, leaving, report, now),
                   !.phases = LeavingDraft(session, leaving, draft)]
        entered == EnterPhase(left, p, now)
    IN /\ sid \in DOMAIN store
       /\ IF p \in PhaseNumbers
          THEN /\ store' = update_session(sid, entered)
               /\ resp' = [op |-> "start_phase", sid |-> sid, phase |-> p,
                           leaving |-> leaving, report |-> report, at |-> now,
                           old_total |-> Get(session.phase_elapsed_seconds, leaving, 0),
                           last_start |-> Get(session.phase_start_times, leaving, NoTime),
                           elapsed_seconds |-> entered.phase_elapsed_seconds[p]]
          ELSE /\ store' = store
               /\ resp' = [op |-> "start_phase_invalid", sid |-> sid, phase |-> p]
       /\ UNCHANGED <<pending, synth, editing, cfg, now, cbVars, scVars, callVars>>

\* save_hint: mark the question's response, or append a placeholder
RECURSIVE HasQuestion(_, _)
HasQuestion(responses, qid) ==
    responses # <<>> /\
       (Head(responses).question_id = qid \/ HasQuestion(Tail(responses), qid))

RECURSIVE MarkHint(_, _)
MarkHint(responses, qid) ==
    IF responses = <<>> THEN <<>>
    ELSE IF Head(responses).question_id = qid
         THEN <<[Head(responses) EXCEPT !.hint_used = TRUE]>> \o Tail(responses)
         ELSE <<Head(responses)>> \o MarkHint(Tail(responses), qid)

HintSaved(pdata, qid) ==
    IF HasQuestion(pdata.responses, qid)
    THEN [pdata EXCEPT !.responses = MarkHint(@, qid)]
    ELSE [pdata EXCEPT !.responses = Append(@, PhaseResponse(qid, "", TRUE))]

save_hint(sid, p, qid) ==
    LET session == get_session(sid)
        pdata == IF p \in DOMAIN session.phases THEN session.phases[p]
                 ELSE PhaseData("in_progress", <<>>, DefaultMetric, <<>>)
        saved == [session EXCEPT !.phases = Put(@, p, HintSaved(pdata, qid))]
    IN /\ sid \in DOMAIN store
       /\ store' = update_session(sid, saved)
       /\ pending' = IF pending.active /\ pending.sid = sid
                     THEN [pending EXCEPT !.hints_during = @ \cup {<<p, qid>>}]
                     ELSE pending
       /\ resp' = [op |-> "save_hint", sid |-> sid, phase |-> p, qid |-> qid]
       /\ UNCHANGED <<synth, editing, cfg, now, cbVars, scVars, callVars>>

\* the pre-evaluation check `if retries > settings.MAX_RETRIES` (session.py 519)
MaxRetriesExceeded_one_late(retries) == retries > MAX_RETRIES + 1

MaxRetriesExceeded(retries) == retries > MAX_RETRIES

\* submit_phase up to the judge call (session.py 470-612)
IsRedundant_disabled(existing, responses) == FALSE

IsRedundant(existing, responses) ==
    /\ existing.status = "passed"
    /\ AnswerPairs(responses) = AnswerPairs(existing.responses)

NoPhaseData == PhaseData("absent", <<>>, DefaultMetric, <<>>)

\* what the request met in the store: the phase passed with these very
\* answers and hint flags (recorded with the response, not used by the route)
MetPassedCopy(row, p, responses) ==
    /\ p \in DOMAIN row.phases
    /\ row.phases[p].status = "passed"
    /\ Len(responses) = Len(row.phases[p].responses)
    /\ \A i \in 1..Len(responses) :
          /\ responses[i].a = row.phases[p].responses[i].a
          /\ responses[i].hint_used = row.phases[p].responses[i].hint_used

submit_phase(sid, p, responses) ==
    LET session == get_session(sid)
        retries == _get_retry_info(session, p)
        existing == Get(session.phases, p, NoPhaseData)
        identical == IsRedundant(existing, responses)
        about == [op |-> "submit_phase", sid |-> sid, phase |-> p,
                  retries |-> retries,
                  identical_passed |-> MetPassedCopy(store[sid], p, responses)]
        served == about @@ [before |-> store[sid]]
    IN /\ sid \in DOMAIN store
       /\ p \in PhaseNumbers
       /\ ~pending.active
       /\ IF MaxRetriesExceeded(retries)
          THEN /\ resp' = served @@
                    [kind |-> "max_retries", passed |-> FALSE, ai_score |-> 0,
                     phase_score |-> 0, total_score |-> session.total_score,
                     can_proceed |-> (retries >= MAX_RETRIES \/ cfg.allow_fail_proceed)]
               /\ UNCHANGED <<store, pending>>
          ELSE IF identical
          THEN /\ resp' = served @@
                    [kind |-> "stored", passed |-> TRUE,
                     ai_score |-> existing.metrics.ai_score,
                     phase_score |-> existing.metrics.weighted_score,
                     total_score |-> session.total_score, can_proceed |-> TRUE]
               /\ UNCHANGED <<store, pending>>
          ELSE /\ pending' = [active |-> TRUE, sid |-> sid, phase |-> p,
                              responses |-> responses, retries |-> retries,
                              existing_phase |-> existing, about |-> about,
                              hints_during |-> {}]
               /\ resp' = about @@ [kind |-> "judge_called"]
               /\ UNCHANGED store
       /\ UNCHANGED <<synth, editing, cfg, now, cbVars, scVars, callVars>>

\* is_final (session.py 743)
IsFinal_never(p) == FALSE

IsFinal(p) == p >= NumPhases

\* can_proceed (session.py 746-747)
CanProceed_passed_only(passed, retries) == passed

CanProceed(passed, retries) ==
    passed \/ retries >= MAX_RETRIES \/ cfg.allow_fail_proceed

\* submit_phase after the judge answered (session.py 621-773)
Judged(session, req, ai_score, usage, t) ==
    LET p == req.phase
        score_result ==
            calculate_phase_score(ai_score, req.retries, TotalElapsed(session, p, t),
                TokenCount(req.responses), PhaseWeight(p), PhaseTimeLimit(p),
                HintPenalty(req.responses, 1))
        passed == determine_pass_threshold(ai_score, req.retries)
                     \/ cfg.allow_fail_proceed
        history ==
            IF req.existing_phase.status = "absent" THEN <<>>
            ELSE IF req.existing_phase.status \in {"passed", "failed"}
                 THEN Append(req.existing_phase.history, req.existing_phase.metrics)
                 ELSE req.existing_phase.history
        phase_scores == Put(session.phase_scores, p, score_result.weighted_score)
        can_proceed == CanProceed(passed, req.retries)
        advance == can_proceed /\ ~IsFinal(p)
    IN [session |->
          [session EXCEPT
             !.phases = Put(@, p,
                 PhaseData(IF passed THEN "passed" ELSE "failed", req.responses,
                           PhaseMetric(score_result), history)),
             !.phase_scores = phase_scores,
             !.total_score = calculate_total_score(phase_scores),
             !.total_tokens = @ + usage,
             !.phase_start_times = IF advance THEN Put(@, p + 1, t) ELSE @,
             !.current_phase = IF advance THEN p + 1 ELSE @],
        passed |-> passed, can_proceed |-> can_proceed,
        phase_score |-> score_result.weighted_score, history |-> history]

judge_returns(ai_score, usage) ==
    LET session == get_session(pending.sid)
        out == Judged(session, pending, ai_score, usage, now)
    IN /\ pending.active
       /\ store' = update_session(pending.sid, out.session)
       /\ pending' = NoRequest
       /\ resp' = pending.about @@
             [kind |-> "judged", passed |-> out.passed, ai_score |-> ai_score,
              phase_score |-> out.phase_score,
              total_score |-> out.session.total_score,
              can_proceed |-> out.can_proceed,
              hints_during |-> pending.hints_during]
       /\ UNCHANGED <<synth, editing, cfg, now, cbVars, scVars, callVars>>

\* the judge call timed out or raised: HTTP 504 / 500, nothing is written
judge_fails_counting ==
    /\ pending.active
    /\ store' = update_session(pending.sid,
                    Judged(get_session(pending.sid), pending, 0, 0, now).session)
    /\ pending' = NoRequest
    /\ resp' = pending.about @@ [kind |-> "error"]
    /\ UNCHANGED <<synth, editing, cfg, now, cbVars, scVars, callVars>>

judge_fails ==
    /\ pending.active
    /\ pending' = NoRequest
    /\ resp' = pending.about @@ [kind |-> "error"]
    /\ UNCHANGED <<store, synth, editing, cfg, now, cbVars, scVars, callVars>>

(***************************************************************************)
(* final_synthesis of api/routes/synthesis.py: a blocking call between the *)
(* read of the session and the write of that same object.                  *)
(***************************************************************************)
final_synthesis(sid) ==
    /\ sid \in DOMAIN store
    /\ ~synth.active
    /\ synth' = [active |-> TRUE, sid |-> sid, session |-> get_session(sid)]
    /\ resp' = [op |-> "synthesis_called", sid |-> sid]
    /\ UNCHANGED <<store, pending, editing, cfg, now, cbVars, scVars, callVars>>

final_synthesis_done ==
    /\ synth.active
    /\ store' = update_session(synth.sid, [synth.session EXCEPT !.is_complete = TRUE,
                                                               !.image_prompt = TRUE])
    /\ synth' = NoRequest
    /\ resp' = [op |-> "final_synthesis", sid |-> synth.sid,
                total_score |-> synth.session.total_score]
    /\ UNCHANGED <<pending, editing, cfg, now, cbVars, scVars, callVars>>

(***************************************************************************)
(* curate_prompt (synthesis.py 113-209) and submit_pitch_image (212-360):  *)
(* like final_synthesis, each reads the session, calls the judge, and      *)
(* writes the object it read.                                              *)
(***************************************************************************)
RECURSIVE AllAnswers(_, _)
\* the answers of every stored phase, in the order of the phases from p on
AllAnswers(phases, p) ==
    IF p > NumPhases THEN <<>>
    ELSE (IF p \in DOMAIN phases
          THEN [i \in 1..Len(phases[p].responses) |-> phases[p].responses[i].a]
          ELSE <<>>) \o AllAnswers(phases, p + 1)

\* hashlib.md5("|".join(all_answers).encode()).hexdigest()
CurrentHash(session) == [set |-> TRUE, of |-> AllAnswers(session.phases, 1)]

Editing(sid, session) == [active |-> TRUE, sid |-> sid, session |-> session]

curate_prompt(sid, regenerate) ==
    LET session == get_session(sid)
        cached == /\ session.answers_hash = CurrentHash(session)
                  /\ session.image_prompt
                  /\ ~regenerate
    IN /\ sid \in DOMAIN store
       /\ ~editing["curate_prompt"].active
       /\ IF cached
          THEN /\ resp' = [op |-> "curate_prompt", sid |-> sid, cached |-> TRUE,
                           before |-> store[sid]]
               /\ UNCHANGED editing
          ELSE /\ resp' = [op |-> "curate_called", sid |-> sid]
               /\ editing' = [editing EXCEPT !["curate_prompt"] = Editing(sid, session)]
       /\ UNCHANGED <<store, pending, synth, cfg, now, cbVars, scVars, callVars>>

\* generate_customer_image_prompt returned, or raised and the fallback
\* prompt with a usage of 0 took its place
curate_prompt_done(usage) ==
    LET req == editing["curate_prompt"]
    IN /\ req.active
       /\ store' = update_session(req.sid,
              [req.session EXCEPT !.image_prompt = TRUE,
                                  !.total_tokens = @ + usage,
                                  !.answers_hash = CurrentHash(req.session)])
       /\ editing' = [editing EXCEPT !["curate_prompt"] = NoRequest]
       /\ resp' = [op |-> "curate_prompt", sid |-> req.sid, cached |-> FALSE,
                   before |-> store[req.sid]]
       /\ UNCHANGED <<pending, synth, cfg, now, cbVars, scVars, callVars>>

submit_pitch_image(sid) ==
    /\ sid \in DOMAIN store
    /\ ~editing["submit_pitch_image"].active
    /\ editing' = [editing EXCEPT !["submit_pitch_image"] = Editing(sid, get_session(sid))]
    /\ resp' = [op |-> "pitch_image_called", sid |-> sid]
    /\ UNCHANGED <<store, pending, synth, cfg, now, cbVars, scVars, callVars>>

\* evaluate_visual_asset_async returned and the image was stored
submit_pitch_image_done(usage) ==
    LET req == editing["submit_pitch_image"]
    IN /\ req.active
       /\ store' = update_session(req.sid,
              [req.session EXCEPT !.image_prompt = TRUE,
                                  !.is_complete = TRUE,
                                  !.total_tokens = @ + usage])
       /\ editing' = [editing EXCEPT !["submit_pitch_image"] = NoRequest]
       /\ resp' = [op |-> "submit_pitch_image", sid |-> req.sid]
       /\ UNCHANGED <<pending, synth, cfg, now, cbVars, scVars, callVars>>

\* the visual evaluation or the image processing raised: HTTP 500, no write
submit_pitch_image_fails ==
    /\ editing["submit_pitch_image"].active
    /\ editing' = [editing EXCEPT !["submit_pitch_image"] = NoRequest]
    /\ resp' = [op |-> "submit_pitch_image_error", sid |-> editing["submit_pitch_image"].sid]
    /\ UNCHANGED <<store, pending, synth, cfg, now, cbVars, scVars, callVars>>

\* Time passes between two requests.
Tick ==
    /\ now < MaxTime
    /\ now' = now + 1
    /\ UNCHANGED <<cbVars, scVars, sessVars, callVars>>

(***************************************************************************)
(* retry_with_backoff (resilience.py 92-179).  The wrapper is split where  *)
(* it blocks: at the call of the wrapped function and at the sleep.        *)
(***************************************************************************)
Callers == {"a", "b"}
MaxRetryBudget == 2
RetryBaseDelay == 1
RetryMaxDelay == 2
EXPONENTIAL_BASE == 2

Outcomes == {"ok", "retryable", "fatal"}

NoCall ==
    [pc |-> "idle", attempt |-> 0, invoked |-> 0, failed |-> 0,
     error |-> "none", wake_at |-> 0, invoked_open |-> FALSE]

\* min(base_delay * (exponential_base ** attempt), max_delay)
BackoffDelay_constant(attempt) == Min(RetryBaseDelay, RetryMaxDelay)

BackoffDelay(attempt) ==
    Min(RetryBaseDelay * EXPONENTIAL_BASE ^ attempt, RetryMaxDelay)

\* `if attempt < max_retries` in the except branch
MayRetry_one_more(attempt, max_retries) == attempt <= max_retries

MayRetry(attempt, max_retries) == attempt < max_retries

\* the bound breaker rejects new work: open with the cooldown still running
BreakerRejecting(cb, t) == cb.state = "open" /\ ~CooldownOver(cb, t)

\* the wrapper is entered: `if circuit and not circuit.can_execute(): raise`,
\* else the first `result = func(*args, **kwargs)` starts
rt_call(c) ==
    LET admitted == ~rtcfg.guarded \/ CanExecuteResult(circuit, now)
        checked == IF rtcfg.guarded THEN AfterCanExecute(circuit, now) ELSE circuit
        fresh == NoCall
    IN /\ rt[c].pc \in {"idle", "returned", "raised"}
       /\ now < MaxTime
       /\ circuit' = checked
       /\ rt' = [rt EXCEPT ![c] =
                   IF admitted
                   THEN [fresh EXCEPT !.pc = "running", !.invoked = 1,
                            !.invoked_open =
                                rtcfg.guarded /\ BreakerRejecting(checked, now)]
                   ELSE [fresh EXCEPT !.pc = "raised", !.error = "circuit_open"]]
       /\ UNCHANGED <<rtcfg, db, now, cbOp, cbRet, cbPrev, cbConsecutive, cbProbeFailed,
                      scVars, sessVars, judgeVars, poolVars>>

\* the wrapped function returns or raises
rt_result(c, outcome) ==
    /\ rt[c].pc = "running"
    /\ circuit' =
          IF ~rtcfg.guarded THEN circuit
          ELSE CASE outcome = "ok" -> AfterSuccess(circuit)
                 [] outcome = "retryable" -> AfterFailure(circuit, now)
                 [] OTHER -> circuit
    /\ rt' = [rt EXCEPT ![c] =
          CASE outcome = "ok" -> [@ EXCEPT !.pc = "returned"]
            [] outcome = "fatal" -> [@ EXCEPT !.pc = "raised", !.error = "fatal"]
            [] OTHER ->
                 IF MayRetry(@.attempt, rtcfg.max_retries)
                 THEN [@ EXCEPT !.pc = "sleeping", !.failed = @ + 1,
                                !.wake_at = now + BackoffDelay(rt[c].attempt)]
                 ELSE [@ EXCEPT !.pc = "raised", !.failed = @ + 1,
                                !.error = "retryable"]]
    /\ UNCHANGED <<rtcfg, db, now, cbOp, cbRet, cbPrev, cbConsecutive, cbProbeFailed,
                   scVars, sessVars, judgeVars, poolVars>>

\* time.sleep(delay) is over: the next iteration calls func again
rt_wake(c) ==
    /\ rt[c].pc = "sleeping"
    /\ now >= rt[c].wake_at
    /\ rt' = [rt EXCEPT ![c].pc = "running",
                        ![c].attempt = @ + 1,
                        ![c].invoked = @ + 1,
                        ![c].wake_at = 0,
                        ![c].invoked_open =
                            @ \/ (rtcfg.guarded /\ BreakerRejecting(circuit, now))]
    /\ UNCHANGED <<rtcfg, db, now, cbVars, scVars, sessVars, judgeVars, poolVars>>

\* Time passes; it cannot stop while a caller sleeps.
SleepTick ==
    /\ \/ now < MaxTime
       \/ \E c \in Callers : rt[c].pc = "sleeping" /\ now < rt[c].wake_at
    /\ now' = now + 1
    /\ UNCHANGED <<cbVars, scVars, sessVars, callVars>>

(***************************************************************************)
(* _db_retry of services/state.py (165-195), the decorator of              *)
(* create_session, get_session, update_session and delete_session.  Delays *)
(* are in tenths of a second.  An exception is described by its class, by  *)
(* whether the database was locked or busy, and by the words of str(e): the *)
(* engine (database/engine.py 12-17) does not hide parameters, so the text *)
(* of an OperationalError carries the statement and its bound values after *)
(* the driver's message.                                                   *)
(***************************************************************************)
DB_MAX_RETRIES == 3
DB_BASE_DELAY == 5

StoreOps == {"create_session", "get_session", "update_session", "delete_session"}

\* the operations whose statement binds text written by the team
BindsTeamText == {"create_session", "update_session"}

DbReturns == [name |-> "ok", raises |-> FALSE, operational |-> FALSE, contention |-> FALSE, words |-> {}]

DbRaises(name, operational, contention, words) ==
    [name |-> name, raises |-> TRUE, operational |-> operational, contention |-> contention, words |-> words]

\* what one run of the database action can end with
DbOutcomes(op) ==
    {DbReturns,
     DbRaises("database is locked", TRUE, TRUE, {"database", "locked"}),
     DbRaises("database is busy", TRUE, TRUE, {"database", "busy"}),
     DbRaises("disk I/O error", TRUE, FALSE, {"disk", "error"}),
     DbRaises("IntegrityError", FALSE, FALSE, {"unique", "constraint"}),
     DbRaises("InterfaceError on a locked cursor", FALSE, FALSE, {"cursor", "locked"})}
    \cup (IF op \in BindsTeamText
          THEN {DbRaises("disk I/O error, answer mentions busy", TRUE, FALSE, {"disk", "error", "busy"})}
          ELSE {})

NoDbCall ==
    [op |-> "none", pc |-> "idle", attempt |-> 0, runs |-> 0, slept |-> <<>>, failed |-> <<>>]

\* 'locked' in error_msg or 'busy' in error_msg
LockWords(e) == e.operational /\ ("locked" \in e.words \/ "busy" \in e.words)

\* base_delay * (2 ** attempt)
DbDelay(attempt) == DB_BASE_DELAY * 2 ^ attempt

\* the wrapper is entered and func runs for the first time
db_call(op) ==
    /\ db.pc \in {"idle", "returned", "raised"}
    /\ db' = [NoDbCall EXCEPT !.op = op, !.pc = "running", !.runs = 1]
    /\ UNCHANGED <<rt, rtcfg, now, cbVars, scVars, sessVars, judgeVars, poolVars>>

\* func returns or raises
db_result(outcome) ==
    LET seen == [db EXCEPT !.failed = Append(@, outcome)]
    IN /\ db.pc = "running"
       /\ outcome \in DbOutcomes(db.op)
       /\ db' = CASE ~outcome.raises -> [db EXCEPT !.pc = "returned"]
                  [] LockWords(outcome) /\ db.attempt < DB_MAX_RETRIES ->
                        [seen EXCEPT !.pc = "sleeping", !.slept = Append(@, DbDelay(db.attempt))]
                  [] OTHER -> [seen EXCEPT !.pc = "raised"]
       /\ UNCHANGED <<rt, rtcfg, now, cbVars, scVars, sessVars, judgeVars, poolVars>>

\* time.sleep(delay) is over: the next iteration runs func again
db_wake ==
    /\ db.pc = "sleeping"
    /\ db' = [db EXCEPT !.pc = "running", !.attempt = @ + 1, !.runs = @ + 1]
    /\ UNCHANGED <<rt, rtcfg, now, cbVars, scVars, sessVars, judgeVars, poolVars>>

(***************************************************************************)
(* ClaudeClient.generate_content (services/ai/client.py 102-171): the      *)
(* retry loop around invoke_model, split at the network call and at the    *)
(* sleeps.  The loop never consults a circuit breaker.                     *)
(***************************************************************************)
JUDGE_MAX_RETRIES == 2
JUDGE_BASE_DELAY == 2

\* what one invoke_model attempt ends with: text, ReadTimeoutError or
\* ConnectTimeoutError, a ClientError by its error code (throttling, auth,
\* ModelStreamErrorException, any other code such as InternalServerException
\* or ServiceUnavailableException), or any other exception
JudgeAnswers ==
    {"ok", "timeout", "throttle", "auth", "stream", "server_error", "unexpected"}

\* the failures the spec calls transient: timeouts, rate limit, 5xx
TransientAnswers == {"timeout", "throttle", "server_error"}

Handling_auth_retried(answer) ==
    CASE answer = "ok" -> "return"
      [] answer = "timeout" -> "backoff"
      [] answer \in {"throttle", "auth"} -> "backoff_long"
      [] answer = "server_error" -> "raise"
      [] OTHER -> "pause"

\* the except clause an answer lands in
Handling(answer) ==
    CASE answer = "ok" -> "return"
      [] answer = "timeout" -> "backoff"
      [] answer = "throttle" -> "backoff_long"
      [] answer \in {"auth", "server_error"} -> "raise"
      [] OTHER -> "pause"

\* the argument of time.sleep in that clause
JudgeDelay(handling, attempt) ==
    CASE handling = "backoff" -> JUDGE_BASE_DELAY * 2 ^ attempt
      [] handling = "backoff_long" -> JUDGE_BASE_DELAY * 2 ^ attempt * 2
      [] OTHER -> JUDGE_BASE_DELAY

NoJudgeCall ==
    [pc |-> "idle", attempt |-> 0, invoked |-> 0, slept |-> 0, error |-> "none",
     transient_only |-> TRUE, wake_at |-> 0, after_streak |-> FALSE]

\* failure_threshold judge calls in a row have failed and the cooldown of the
\* ai_service breaker, counted from the last of them, is still running
StreakRunning(t) ==
    /\ gcLog.failed >= circuit.failure_threshold
    /\ t - gcLog.last < circuit.recovery_timeout

JudgeCallFailed(t) == [failed |-> Min(gcLog.failed + 1, MaxFailures), last |-> t]

\* generate_content is entered and the first invoke_model starts
gc_call(c) ==
    /\ gc[c].pc \in {"idle", "returned", "raised"}
    /\ now < MaxTime
    /\ gc' = [gc EXCEPT ![c] = [NoJudgeCall EXCEPT !.pc = "invoking", !.invoked = 1,
                                                  !.after_streak = StreakRunning(now)]]
    /\ UNCHANGED <<gcLog, pl, rt, rtcfg, db, poolVars, now, cbVars, scVars, sessVars>>

\* invoke_model returns or raises
gc_answer(c, answer) ==
    LET h == Handling(answer)
        call == [gc[c] EXCEPT !.error = IF answer = "ok" THEN @ ELSE answer,
                              !.transient_only = @ /\ answer \in TransientAnswers \cup {"ok"}]
        retry == h \notin {"return", "raise"} /\ call.attempt < JUDGE_MAX_RETRIES
    IN /\ gc[c].pc = "invoking"
       /\ gc' = [gc EXCEPT ![c] =
             CASE h = "return" -> [call EXCEPT !.pc = "returned"]
               [] retry -> [call EXCEPT !.pc = "sleeping",
                                        !.wake_at = now + JudgeDelay(h, call.attempt)]
               [] OTHER -> [call EXCEPT !.pc = "raised"]]
       /\ gcLog' = CASE h = "return" -> [gcLog EXCEPT !.failed = 0]
                     [] retry -> gcLog
                     [] OTHER -> JudgeCallFailed(now)
       /\ UNCHANGED <<pl, rt, rtcfg, db, poolVars, now, cbVars, scVars, sessVars>>

\* time.sleep is over: the next iteration calls invoke_model again
gc_wake(c) ==
    /\ gc[c].pc = "sleeping"
    /\ now >= gc[c].wake_at
    /\ gc' = [gc EXCEPT ![c].pc = "invoking",
                        ![c].attempt = @ + 1,
                        ![c].invoked = @ + 1,
                        ![c].slept = @ + 1,
                        ![c].wake_at = 0,
                        ![c].after_streak = @ \/ StreakRunning(now)]
    /\ UNCHANGED <<gcLog, pl, rt, rtcfg, db, poolVars, now, cbVars, scVars, sessVars>>

\* Time passes; it cannot stop while a judge call sleeps.
JudgeTick ==
    /\ \/ now < MaxTime
       \/ \E c \in Callers : gc[c].pc = "sleeping" /\ now < gc[c].wake_at
    /\ now' = now + 1
    /\ UNCHANGED <<cbVars, scVars, sessVars, callVars>>

(***************************************************************************)
(* The evaluation pipeline (evaluator.py 27-124): the critic, the verdict  *)
(* and, when an image is attached, the visual analyst, each one call of    *)
(* generate_content whose text goes through parse_ai_response              *)
(* (models/ai_responses.py 180-239).  Scores are in hundredths.  A text is *)
(* described by its shape and by what is written in it; a Python function  *)
(* that can raise is an operator whose result has a raised field.          *)
(***************************************************************************)
HTTP_OK == 200
HTTP_ERROR == 500
HTTP_TIMEOUT == 504

\* the shapes of a judge text: a JSON object, one the repair pass can mend,
\* no JSON at all, JSON that the model class rejects
TextForms == {"json", "trailing_comma", "prose", "not_an_object"}
RepairableForms == {"trailing_comma"}

JudgeText(form, score, i, o) ==
    [raises |-> FALSE, form |-> form, report |-> "critique", score |-> score,
     rationale |-> TRUE, input_tokens |-> i, output_tokens |-> o]

\* generate_content raised after its own retries
JudgeRaises ==
    [raises |-> TRUE, form |-> "none", report |-> "", score |-> 0,
     rationale |-> FALSE, input_tokens |-> 0, output_tokens |-> 0]

\* the fields of model_class() that the pipeline reads
RedTeamReport == [report |-> "Analysis inconclusive.", score |-> 0, rationale |-> FALSE]
LeadPartnerVerdict == [report |-> "", score |-> 0, rationale |-> TRUE]
VisualAnalysisResult == [report |-> "", score |-> 0, rationale |-> FALSE]
VISUAL_FALLBACK_SCORE == 50

\* the validators of score and visual_score (ai_responses.py 62-84, 166-176):
\* a value above 1.0 is read as a percentage, then the value is clamped; the
\* unit here is one hundredth
clamp_score_unchecked(v) == v

clamp_score(v) == Max(0, Min(100, IF v > 100 THEN v \div 100 ELSE v))

Parsed(text) ==
    [report |-> text.report, score |-> clamp_score(text.score), rationale |-> text.rationale]

parse_ai_response_strict(text, model_class) ==
    IF text.form = "json" \/ text.form \in RepairableForms
    THEN [raised |-> FALSE, defaulted |-> FALSE, model |-> Parsed(text)]
    ELSE [raised |-> TRUE, defaulted |-> FALSE, model |-> model_class]

parse_ai_response(text, model_class) ==
    CASE text.form = "json" ->
            [raised |-> FALSE, defaulted |-> FALSE, model |-> Parsed(text)]
      [] text.form \in RepairableForms ->
            [raised |-> FALSE, defaulted |-> FALSE, model |-> Parsed(text)]
      [] OTHER ->
            [raised |-> FALSE, defaulted |-> TRUE, model |-> model_class]

ZeroUsage == [input_tokens |-> 0, output_tokens |-> 0]
UsageOf(answer) == [input_tokens |-> answer.input_tokens, output_tokens |-> answer.output_tokens]
AddUsage_first_only(a, b) == a

AddUsage(a, b) ==
    [input_tokens |-> a.input_tokens + b.input_tokens,
     output_tokens |-> a.output_tokens + b.output_tokens]

StageRaised == [raised |-> TRUE, defaulted |-> FALSE, report |-> "", score |-> 0, usage |-> ZeroUsage]

\* one agent: the call, then the parse
RunAgent(answer, model_class) ==
    IF answer.raises THEN StageRaised
    ELSE LET parsed == parse_ai_response(answer, model_class)
         IN IF parsed.raised THEN StageRaised
            ELSE [raised |-> FALSE, defaulted |-> parsed.defaulted,
                  report |-> parsed.model.report, score |-> parsed.model.score,
                  usage |-> UsageOf(answer)]

run_red_team_agent(answer) == RunAgent(answer, RedTeamReport)

run_lead_partner_agent(answer) == RunAgent(answer, LeadPartnerVerdict)

evaluate_visual_asset(answer) ==
    IF answer.raises THEN StageRaised
    ELSE LET parsed == parse_ai_response(answer, VisualAnalysisResult)
             failed == parsed.model.score = 0 /\ ~parsed.model.rationale
         IN IF parsed.raised THEN StageRaised
            ELSE [raised |-> FALSE, defaulted |-> parsed.defaulted, report |-> "",
                  score |-> IF failed THEN VISUAL_FALLBACK_SCORE ELSE parsed.model.score,
                  usage |-> UsageOf(answer)]

\* Final = TextScore + (VisualScore - 0.5) * 0.2, clamped
MergeVisual(text_score, visual_score) ==
    Max(0, Min(100, text_score + (visual_score - 50) \div 5))

PipelineFailed(ran) ==
    [raised |-> TRUE, status |-> HTTP_ERROR, ran |-> ran, report |-> "", score |-> 0,
     verdict_default |-> FALSE, provisional |-> FALSE, usage |-> ZeroUsage]

evaluate_phase(answers) ==
    LET red_team_result == run_red_team_agent(answers.critic)
        final_result == run_lead_partner_agent(answers.verdict)
        visual_result_data == evaluate_visual_asset(answers.visual)
        verdict_usage == IF answers.image THEN AddUsage(final_result.usage, visual_result_data.usage)
                         ELSE final_result.usage
    IN CASE red_team_result.raised -> PipelineFailed({"critic"})
         [] final_result.raised -> PipelineFailed({"critic", "verdict"})
         [] answers.image /\ visual_result_data.raised -> PipelineFailed({"critic", "verdict", "visual"})
         [] OTHER ->
              [raised |-> FALSE, status |-> HTTP_OK,
               ran |-> {"critic", "verdict"} \cup (IF answers.image THEN {"visual"} ELSE {}),
               report |-> red_team_result.report,
               score |-> IF answers.image THEN MergeVisual(final_result.score, visual_result_data.score)
                         ELSE final_result.score,
               verdict_default |-> final_result.defaulted,
               provisional |-> FALSE,
               usage |-> AddUsage(red_team_result.usage, verdict_usage)]

NoRun ==
    [ran |-> FALSE, about |-> NoRequest,
     answers |-> [critic |-> JudgeRaises, verdict |-> JudgeRaises, visual |-> JudgeRaises, image |-> FALSE],
     out |-> PipelineFailed({})]

\* The worker thread runs the pipeline for the suspended submit_phase.  A
\* request that repeats one answered with an error is told apart from it by
\* the failed run it finds.
evaluate_phase_runs(critic, verdict, visual, image) ==
    LET answers == [critic |-> critic, verdict |-> verdict, visual |-> visual, image |-> image]
    IN /\ pending.active
       /\ pl.ran /\ pl.about = pending.about => pl.out.raised
       /\ pl' = [ran |-> TRUE, about |-> pending.about, answers |-> answers,
                 out |-> evaluate_phase(answers)]
       /\ UNCHANGED <<gc, gcLog, rt, rtcfg, db, poolVars, now, cbVars, scVars, sessVars>>

PipelineDone == pending.active /\ pl.ran /\ pl.about = pending.about

\* submit_phase resumes with the pipeline's result (session.py 603-773)
evaluate_phase_returns ==
    /\ PipelineDone
    /\ ~pl.out.raised
    /\ judge_returns(pl.out.score, pl.out.usage.input_tokens + pl.out.usage.output_tokens)

\* submit_phase resumes in its except branch (session.py 613-619)
evaluate_phase_raises ==
    /\ PipelineDone
    /\ pl.out.raised
    /\ judge_fails

(***************************************************************************)
(* The routes that call the judge and the executors they run it on:        *)
(* submit_phase through evaluate_phase_async (async_wrapper.py 22-64, the  *)
(* AI pool and asyncio.wait_for), submit_phase_stream through              *)
(* evaluate_phase_streaming (run_in_executor(None, ...), the event loop's  *)
(* default executor), and the synchronous synthesis routes, which the      *)
(* framework runs in its own thread pool.                                  *)
(***************************************************************************)
AI_POOL_WORKERS == 10
AI_OPERATION_TIMEOUT == 120
PoolTimeStep == 60
PoolHorizon == 120

Routes == {"submit", "stream", "synthesis"}

NoEval ==
    [route |-> "none", task |-> "none", waiter |-> "idle", started |-> 0,
     ended |-> 0, status |-> 0, scored |-> FALSE, timed_in |-> "none"]

\* a worker thread is inside the pipeline (calling the judge or sleeping
\* between two attempts)
Executes(c) == ev[c].task \in {"running", "retrying"}

\* busy workers of _ai_executor
PoolBusy == others + Cardinality({c \in Callers : ev[c].route = "submit" /\ Executes(c)})

\* judge pipelines executing in the process, on whichever executor
Executing == others + Cardinality({c \in Callers : Executes(c)})

Armed(c) == ev[c].route = "submit" /\ ev[c].waiter = "waiting"

TimerDue_running_only(c) ==
    /\ Armed(c)
    /\ Executes(c)
    /\ now >= ev[c].started + AI_OPERATION_TIMEOUT

\* asyncio.wait_for(..., timeout=AI_OPERATION_TIMEOUT): the timer runs from
\* the call, whatever the state of the task
TimerDue(c) ==
    /\ Armed(c)
    /\ now >= ev[c].started + AI_OPERATION_TIMEOUT

\* a request arrives: submit_phase puts its task in the AI pool's queue, the
\* other routes start theirs on their own executor
ev_request(c, route) ==
    /\ ev[c].waiter # "waiting"
    /\ now < PoolHorizon
    /\ ev' = [ev EXCEPT ![c] =
                 [NoEval EXCEPT !.route = route,
                                !.task = IF route = "submit" THEN "queued" ELSE "running",
                                !.waiter = "waiting",
                                !.started = now]]
    /\ UNCHANGED <<others, rt, rtcfg, db, judgeVars, now, cbVars, scVars, sessVars>>

\* a free worker of the AI pool takes the task from the queue
pool_start(c) ==
    /\ ev[c].task = "queued"
    /\ PoolBusy < AI_POOL_WORKERS
    /\ ev' = [ev EXCEPT ![c].task = "running"]
    /\ UNCHANGED <<others, rt, rtcfg, db, judgeVars, now, cbVars, scVars, sessVars>>

\* the pipeline enters or leaves a sleep between two attempts of the client
task_backoff(c) ==
    /\ Executes(c)
    /\ ev' = [ev EXCEPT ![c].task = IF @ = "running" THEN "retrying" ELSE "running"]
    /\ UNCHANGED <<others, rt, rtcfg, db, judgeVars, now, cbVars, scVars, sessVars>>

\* the pipeline returns its result or raises; the route answers with the
\* scored response (or the complete event), or with HTTP 500 (the error event)
task_finish(c, ok) ==
    /\ ev[c].task = "running"
    /\ ev[c].waiter = "waiting"
    /\ ev' = [ev EXCEPT ![c].task = "done",
                        ![c].waiter = IF ok THEN "returned" ELSE "failed",
                        ![c].ended = now,
                        ![c].status = IF ok THEN HTTP_OK ELSE HTTP_ERROR,
                        ![c].scored = ok]
    /\ UNCHANGED <<others, rt, rtcfg, db, judgeVars, now, cbVars, scVars, sessVars>>

\* wait_for gives up: evaluate_phase_async raises TimeoutError and submit_phase
\* answers 504.  A queued task is cancelled; a started one keeps its worker.
ev_timeout(c) ==
    /\ TimerDue(c)
    /\ ev' = [ev EXCEPT ![c].task = IF @ = "queued" THEN "cancelled" ELSE "none",
                        ![c].waiter = "timeout",
                        ![c].ended = now,
                        ![c].status = HTTP_TIMEOUT,
                        ![c].scored = FALSE,
                        ![c].timed_in = ev[c].task]
    /\ others' = IF Executes(c) THEN others + 1 ELSE others
    /\ UNCHANGED <<rt, rtcfg, db, judgeVars, now, cbVars, scVars, sessVars>>

\* another request's task takes a worker of the AI pool, or gives it back
other_start ==
    /\ PoolBusy < AI_POOL_WORKERS
    /\ others' = others + 1
    /\ UNCHANGED <<ev, rt, rtcfg, db, judgeVars, now, cbVars, scVars, sessVars>>

other_finish ==
    /\ others > 0
    /\ others' = others - 1
    /\ UNCHANGED <<ev, rt, rtcfg, db, judgeVars, now, cbVars, scVars, sessVars>>

\* Time passes up to the next timer; a timer that is due fires first.
PoolTick ==
    LET ahead == {ev[c].started + AI_OPERATION_TIMEOUT : c \in {x \in Callers : Armed(x)}}
                    \ (0..now)
        next == IF ahead = {} THEN now + PoolTimeStep
                ELSE Min(now + PoolTimeStep, CHOOSE d \in ahead : \A e \in ahead : d <= e)
    IN /\ now < PoolHorizon \/ \E c \in Callers : Armed(c)
       /\ ~\E c \in Callers : TimerDue(c)
       /\ now' = next
       /\ UNCHANGED <<cbVars, scVars, sessVars, callVars>>

(***************************************************************************)
(* Inputs of the session specifications.                                   *)
(***************************************************************************)
Answers == {"brief", "long"}
ClientResponses ==
    {<<PhaseResponse(QuestionIds[1], a, h)>> : a \in Answers, h \in BOOLEAN}
PlainResponses == {r \in ClientResponses : ~r[1].hint_used}
LongResponses == {r \in ClientResponses : r[1].a = "long"}
JudgeScores == {30, 90}
JudgeUsage == {2}
FullWeight == WeightUnit
ElapsedReports == {4, 20}
ModelTimeLimit == 2

DefaultWeights == [p \in PhaseNumbers |-> NoWeight]
HeavyWeights == [p \in PhaseNumbers |-> IF p = 1 THEN FullWeight ELSE NoWeight]

Config(weights, allow) ==
    [weight |-> weights, allow_fail_proceed |-> allow, time_limit |-> ModelTimeLimit]

(***************************************************************************)
(* Specifications.                                                         *)
(***************************************************************************)
BreakerIdle ==
    /\ circuit = CircuitBreaker(1, 1)
    /\ cbOp = "init"
    /\ cbRet = TRUE
    /\ cbPrev = "closed"
    /\ cbConsecutive = 0
    /\ cbProbeFailed = NoTime

ScoreIdle ==
    /\ scIn = [weight |-> DEFAULT_WEIGHT]
    /\ scOut = NoResult
    /\ scPass = NoVerdict

JudgeIdle ==
    /\ gc = [c \in Callers |-> NoJudgeCall]
    /\ gcLog = [failed |-> 0, last |-> 0]
    /\ pl = NoRun

PoolIdle ==
    /\ ev = [c \in Callers |-> NoEval]
    /\ others = 0

RetryIdle ==
    /\ rt = [c \in Callers |-> NoCall]
    /\ rtcfg = [max_retries |-> 0, guarded |-> FALSE]
    /\ db = NoDbCall

CallsIdle ==
    /\ RetryIdle
    /\ JudgeIdle
    /\ PoolIdle

SessionIdle ==
    /\ store = EmptyDict
    /\ pending = NoRequest
    /\ synth = NoRequest
    /\ editing = NoEditing
    /\ resp = NoResponse
    /\ cfg = Config(DefaultWeights, TRUE)

InitCB ==
    /\ \E n \in 1..MaxThreshold, t \in 1..MaxTimeout : circuit = CircuitBreaker(n, t)
    /\ now = 0
    /\ cbOp = "init"
    /\ cbRet = TRUE
    /\ cbPrev = "closed"
    /\ cbConsecutive = 0
    /\ cbProbeFailed = NoTime
    /\ ScoreIdle
    /\ SessionIdle
    /\ CallsIdle

NextCB ==
    \/ record_success
    \/ record_failure
    \/ can_execute
    \/ ClockTick

SpecCB == InitCB /\ [][NextCB]_vars

InitScore ==
    /\ scIn \in ScoreInputs
    /\ scOut = NoResult
    /\ scPass = NoVerdict
    /\ now = 0
    /\ BreakerIdle
    /\ SessionIdle
    /\ CallsIdle

NextScore ==
    \/ ScoreCall
    \/ PassCall

SpecScore == InitScore /\ [][NextScore]_vars

InitSession(configs) ==
    /\ store = EmptyDict
    /\ pending = NoRequest
    /\ synth = NoRequest
    /\ editing = NoEditing
    /\ resp = NoResponse
    /\ cfg \in configs
    /\ now = 0
    /\ BreakerIdle
    /\ ScoreIdle
    /\ CallsIdle

\* Repeated submissions of the first phase, with hints and re-entries between.
InitResubmit ==
    InitSession({Config(DefaultWeights, allow) : allow \in BOOLEAN})

NextResubmit ==
    \/ \E team \in Teams : init_session(team, "")
    \/ \E sid \in DOMAIN store, r \in PlainResponses : submit_phase(sid, 1, r)
    \/ \E s \in JudgeScores, u \in JudgeUsage : judge_returns(s, u)
    \/ judge_fails
    \/ \E sid \in DOMAIN store : save_hint(sid, 1, QuestionIds[1])
    \/ \E sid \in DOMAIN store : start_phase(sid, 1, NoPhase, NoTime, <<>>)

SpecResubmit == InitResubmit /\ [][NextResubmit]_vars

\* Hint autosaves racing one submission, on either phase.
InitHint == InitSession({Config(DefaultWeights, TRUE)})

NextHint ==
    \/ \E team \in Teams : init_session(team, "")
    \/ \E sid \in DOMAIN store, p \in PhaseNumbers, r \in LongResponses :
            submit_phase(sid, p, r)
    \/ \E u \in JudgeUsage : judge_returns(90, u)
    \/ \E sid \in DOMAIN store, p \in PhaseNumbers : save_hint(sid, p, QuestionIds[1])
    \/ \E sid \in DOMAIN store, p \in PhaseNumbers, leaving \in PhaseNumbers :
            start_phase(sid, p, leaving, NoTime,
                        <<PhaseResponse(QuestionIds[1], "brief", FALSE)>>)

SpecHint == InitHint /\ [][NextHint]_vars

\* Scores of all phases under two vaults, with navigation and synthesis.
InitTotals ==
    InitSession({Config(w, TRUE) : w \in {DefaultWeights, HeavyWeights}})

NextTotals ==
    \/ \E team \in Teams : init_session(team, "")
    \/ \E sid \in DOMAIN store, p \in PhaseNumbers :
            submit_phase(sid, p, <<PhaseResponse(QuestionIds[1], "long", FALSE)>>)
    \/ \E u \in JudgeUsage : judge_returns(90, u)
    \/ \E sid \in DOMAIN store : start_phase(sid, 1, NoPhase, NoTime, <<>>)
    \/ \E sid \in DOMAIN store : save_hint(sid, 1, QuestionIds[1])
    \/ \E sid \in DOMAIN store : final_synthesis(sid)
    \/ final_synthesis_done

SpecTotals == InitTotals /\ [][NextTotals]_vars

\* Phase navigation with client-reported elapsed times and the clock running.
InitTimer == InitSession({Config(DefaultWeights, TRUE)})

NextTimer ==
    \/ \E team \in Teams : init_session(team, "")
    \/ \E sid \in DOMAIN store, p \in PhaseNumbers, leaving \in PhaseNumbers \cup {NoPhase},
          report \in ElapsedReports \cup {NoTime} :
            start_phase(sid, p, leaving, report, <<>>)
    \/ Tick

SpecTimer == InitTimer /\ [][NextTimer]_vars

\* Moving between phases with reported times, around judged attempts of the
\* first phase that fail or pass.
\* the team submits the first phase again at most this many times
NavResubmits == 0

\* the phases the team moves between
NavPhases == {1, 2}

InitNavigate == InitSession({Config(DefaultWeights, FALSE)})

NextNavigate ==
    \/ \E team \in Teams : init_session(team, "")
    \/ \E sid \in DOMAIN store :
            /\ 1 \in DOMAIN store[sid].phases => Len(store[sid].phases[1].history) < NavResubmits
            /\ submit_phase(sid, 1, <<PhaseResponse(QuestionIds[1], "long", FALSE)>>)
    \/ \E s \in JudgeScores, u \in JudgeUsage : judge_returns(s, u)
    \/ \E sid \in DOMAIN store, p \in NavPhases, leaving \in NavPhases \cup {NoPhase},
          report \in {NoTime, 4} :
            start_phase(sid, p, leaving, report, <<>>)
    \/ Tick

SpecNavigate == InitNavigate /\ [][NextNavigate]_vars

\* Callers of one retry_with_backoff wrapper, bound to a breaker or not.
InitRetry ==
    /\ rt = [c \in Callers |-> NoCall]
    /\ db = NoDbCall
    /\ \E n \in 0..MaxRetryBudget, g \in BOOLEAN :
          rtcfg = [max_retries |-> n, guarded |-> g]
    /\ \E n \in 1..MaxThreshold : circuit = CircuitBreaker(n, MaxTimeout)
    /\ now = 0
    /\ cbOp = "init"
    /\ cbRet = TRUE
    /\ cbPrev = "closed"
    /\ cbConsecutive = 0
    /\ cbProbeFailed = NoTime
    /\ JudgeIdle
    /\ PoolIdle
    /\ ScoreIdle
    /\ SessionIdle

NextRetry ==
    \/ \E c \in Callers : rt_call(c)
    \/ \E c \in Callers, o \in Outcomes : rt_result(c, o)
    \/ \E c \in Callers : rt_wake(c)
    \/ SleepTick

\* the wrapped function returns or raises, the sleep ends, the loop goes on
FairRetry ==
    /\ \A c \in Callers : WF_vars(\E o \in Outcomes : rt_result(c, o))
    /\ \A c \in Callers : WF_vars(rt_wake(c))
    /\ WF_vars(SleepTick)

SpecRetry == InitRetry /\ [][NextRetry]_vars /\ FairRetry

\* Callers of generate_content; the ai_service breaker exists beside them.
InitJudge ==
    /\ JudgeIdle
    /\ RetryIdle
    /\ PoolIdle
    /\ \E n \in 1..MaxThreshold : circuit = CircuitBreaker(n, MaxTimeout)
    /\ now = 0
    /\ cbOp = "init"
    /\ cbRet = TRUE
    /\ cbPrev = "closed"
    /\ cbConsecutive = 0
    /\ cbProbeFailed = NoTime
    /\ ScoreIdle
    /\ SessionIdle

\* generate_content keeps nothing between calls, so one caller making its
\* calls in sequence goes through every case of the loop
JudgeCallers == {"a"}

NextJudge ==
    \/ \E c \in JudgeCallers : gc_call(c)
    \/ \E c \in JudgeCallers, a \in JudgeAnswers : gc_answer(c, a)
    \/ \E c \in JudgeCallers : gc_wake(c)
    \/ JudgeTick

SpecJudge == InitJudge /\ [][NextJudge]_vars

\* Requests to the routes that call the judge.
InitPool ==
    /\ PoolIdle
    /\ JudgeIdle
    /\ RetryIdle
    /\ now = 0
    /\ BreakerIdle
    /\ ScoreIdle
    /\ SessionIdle

NextPool ==
    \/ \E c \in Callers, r \in Routes : ev_request(c, r)
    \/ \E c \in Callers : pool_start(c)
    \/ \E c \in Callers : task_backoff(c)
    \/ \E c \in Callers, ok \in BOOLEAN : task_finish(c, ok)
    \/ \E c \in Callers : ev_timeout(c)
    \/ other_start
    \/ other_finish
    \/ PoolTick

SpecPool == InitPool /\ [][NextPool]_vars

\* One team submitting the first phase, every submission judged by a run of
\* the pipeline whose three stages answer in any of the modelled ways.
CriticAnswers == {JudgeRaises} \cup {JudgeText(f, 0, 1, 2) : f \in TextForms}
VerdictAnswers == {JudgeRaises} \cup {JudgeText(f, s, 10, 20) : f \in TextForms, s \in JudgeScores}
VisualAnswers == {JudgeRaises} \cup {JudgeText(f, s, 100, 200) : f \in {"json", "prose"}, s \in {0, 100}}

\* the team submits the first phase again at most this many times
PipelineResubmits == 1

InitPipeline == InitSession({Config(DefaultWeights, FALSE)})

NextPipeline ==
    \/ \E team \in Teams : init_session(team, "")
    \/ \E sid \in DOMAIN store :
            /\ 1 \in DOMAIN store[sid].phases => Len(store[sid].phases[1].history) < PipelineResubmits
            /\ submit_phase(sid, 1, <<PhaseResponse(QuestionIds[1], "long", FALSE)>>)
    \/ \E critic \in CriticAnswers, verdict \in VerdictAnswers, visual \in VisualAnswers, image \in BOOLEAN :
            evaluate_phase_runs(critic, verdict, visual, image)
    \/ evaluate_phase_returns
    \/ evaluate_phase_raises

SpecPipeline == InitPipeline /\ [][NextPipeline]_vars

\* One team submitting the first phase with or without image evidence; the
\* critic answers well, the verdict and the visual analyst write their scores
\* as fractions, as a percentage (82 for 0.82, 70 for 0.70), as a negative
\* number, or not as JSON.  Scores are in hundredths.
VerdictScores == {5, 30, 90, 97, 8200, -20}
VisualScores == {0, 30, 100, 7000}
MergeVerdicts == {JudgeText("json", s, 10, 20) : s \in VerdictScores}
MergeVisuals ==
    {JudgeRaises} \cup {JudgeText(f, s, 100, 200) : f \in {"json", "prose"}, s \in VisualScores}
MergeCritics == {JudgeText("json", 0, 1, 2)}

InitMerge == InitSession({Config(DefaultWeights, FALSE)})

NextMerge ==
    \/ \E team \in Teams : init_session(team, "")
    \/ \E sid \in DOMAIN store :
            /\ 1 \in DOMAIN store[sid].phases => Len(store[sid].phases[1].history) < PipelineResubmits
            /\ submit_phase(sid, 1, <<PhaseResponse(QuestionIds[1], "long", FALSE)>>)
    \/ \E critic \in MergeCritics, verdict \in MergeVerdicts, visual \in MergeVisuals, image \in BOOLEAN :
            evaluate_phase_runs(critic, verdict, visual, image)
    \/ evaluate_phase_returns
    \/ evaluate_phase_raises

SpecMerge == InitMerge /\ [][NextMerge]_vars

\* One team opening the game again and again, with no usecase or with one of
\* two, between a judged first phase and moves to the second phase.  Two
\* sessions of a team are not created at the same instant.
InitInit == InitSession({Config(DefaultWeights, FALSE)})

NextInit ==
    \/ \E team \in Teams, u \in Usecases \cup {""} :
            /\ u = "" \/ \A s \in TeamSessions(team) : store[s].created_at < now
            /\ init_session(team, u)
    \/ \E sid \in DOMAIN store :
            /\ 1 \notin DOMAIN store[sid].phases
            /\ submit_phase(sid, 1, <<PhaseResponse(QuestionIds[1], "long", FALSE)>>)
    \/ \E u \in JudgeUsage : judge_returns(90, u)
    \/ \E sid \in DOMAIN store : start_phase(sid, NumPhases, NoPhase, NoTime, <<>>)
    \/ Tick

SpecInit == InitInit /\ [][NextInit]_vars

\* Judged attempts of every phase, passed or failed, with the vault's forced
\* proceed on or off, and start-phase requests for any phase number.
\* phase 1 is resubmitted freely, a later phase is submitted once; the
\* clock stops at AdvanceHorizon
AdvanceHorizon == 1

InitAdvance == InitSession({Config(DefaultWeights, allow) : allow \in BOOLEAN})

NextAdvance ==
    \/ \E team \in Teams : init_session(team, "")
    \/ \E sid \in DOMAIN store, p \in PhaseNumbers :
            /\ p = 1 \/ p \notin DOMAIN store[sid].phases
            /\ submit_phase(sid, p, <<PhaseResponse(QuestionIds[1], "long", FALSE)>>)
    \/ \E s \in JudgeScores, u \in JudgeUsage : judge_returns(s, u)
    \/ judge_fails
    \/ \E sid \in DOMAIN store, p \in 0..NumPhases + 1 : start_phase(sid, p, NoPhase, NoTime, <<>>)
    \/ now < AdvanceHorizon /\ Tick

SpecAdvance == InitAdvance /\ [][NextAdvance]_vars

\* Navigation and submissions of both phases while the clock runs in steps
\* of ClockStep seconds up to DurationHorizon.
ClockStep == 3
DurationHorizon == 6
\* the phase left and the seconds reported for it: none, or phase 1 with 4
DurationNavigations == {<<NoPhase, NoTime>>, <<1, 4>>}

\* the clock moves on; every session's current phase has been current for
\* that much longer
Elapse ==
    /\ now + ClockStep <= DurationHorizon
    /\ now' = now + ClockStep
    /\ store' = [sid \in DOMAIN store |->
                   [store[sid] EXCEPT !.was_current =
                       Put(@, store[sid].current_phase,
                           Get(@, store[sid].current_phase, 0) + ClockStep)]]
    /\ UNCHANGED <<pending, synth, editing, resp, cfg, cbVars, scVars, callVars>>

InitDuration == InitSession({Config(DefaultWeights, FALSE)})

NextDuration ==
    \/ \E team \in Teams : init_session(team, "")
    \/ \E sid \in DOMAIN store, p \in PhaseNumbers :
            /\ p \notin DOMAIN store[sid].phases
            /\ submit_phase(sid, p, <<PhaseResponse(QuestionIds[1], "long", FALSE)>>)
    \/ \E s \in JudgeScores, u \in JudgeUsage : judge_returns(s, u)
    \/ \E sid \in DOMAIN store, p \in PhaseNumbers, nav \in DurationNavigations :
            start_phase(sid, p, nav[1], nav[2], <<>>)
    \/ Elapse

SpecDuration == InitDuration /\ [][NextDuration]_vars

(***************************************************************************)
(* Phase advance claims (SpecAdvance)                                      *)
(***************************************************************************)
\* the step in which a submit_phase request gets the judge's answer
JudgedStep ==
    /\ pending.active
    /\ ~pending'.active
    /\ resp'.op = "submit_phase"
    /\ resp'.kind = "judged"


\* C33: a judged submit_phase for a non-final phase p leaves current_phase
\* at p + 1 with the start time of p + 1 stamped at the time of the answer
\* when the attempt passed, the retries are exhausted or forced proceed is
\* on, and leaves current_phase as it was when the attempt failed with
\* retries remaining; a judged submit for the final phase never changes
\* current_phase.
C33_AdvanceOnProceed ==
    [][JudgedStep =>
         LET sid == resp'.sid
             p == resp'.phase
             proceed == \/ resp'.passed
                        \/ resp'.retries >= MAX_RETRIES
                        \/ cfg.allow_fail_proceed
         IN IF p < NumPhases /\ proceed
            THEN /\ store'[sid].current_phase = p + 1
                 /\ (p + 1) \in DOMAIN store'[sid].phase_start_times
                 /\ store'[sid].phase_start_times[p + 1] = now
            ELSE store'[sid].current_phase = store[sid].current_phase]_vars

\* a failed last attempt of phase 1 moved the session on to phase 2
C33_Witness ==
    /\ resp.op = "submit_phase"
    /\ resp.kind = "judged"
    /\ ~resp.passed
    /\ resp.retries = MAX_RETRIES
    /\ resp.phase = 1
    /\ resp.can_proceed
    /\ store[resp.sid].current_phase = 2

\* C37: in every reachable state, every stored session has
\* 1 <= current_phase <= NumPhases (the number of phases defined for its
\* usecase).
C37_CurrentPhaseInRange ==
    \A sid \in DOMAIN store :
        /\ 1 <= store[sid].current_phase
        /\ store[sid].current_phase <= NumPhases

\* the final phase was judged and passed, and a start_phase for an
\* undefined phase number was then refused
C37_Witness ==
    /\ resp.op = "start_phase_invalid"
    /\ resp.phase = NumPhases + 1
    /\ store[resp.sid].current_phase = NumPhases
    /\ NumPhases \in DOMAIN store[resp.sid].phases
    /\ store[resp.sid].phases[NumPhases].status = "passed"

(***************************************************************************)
(* Scored duration claims (SpecDuration)                                   *)
(***************************************************************************)
\* C34: the duration scored by a judged submit_phase is the re-read
\* session's accumulated seconds of the phase plus the time since its
\* segment start, and it is at most the time the phase has been the
\* session's current phase plus the skew tolerance.
C34_DurationWithinPhaseTime ==
    [][JudgedStep =>
         LET session == get_session(resp'.sid)
             p == resp'.phase
             scored == store'[resp'.sid].phases[p].metrics.duration_seconds
         IN /\ scored = TotalElapsed(session, p, now)
            /\ scored <= Get(session.was_current, p, 0) + SKEW_TOLERANCE]_vars

\* a judged phase whose scored duration exceeds the time it was current by
\* more than the tolerance
C34_ScoredTimeElsewhere ==
    \E sid \in DOMAIN store : \E p \in DOMAIN store[sid].phases :
        /\ store[sid].phases[p].status \in {"passed", "failed"}
        /\ store[sid].phases[p].metrics.duration_seconds >
              Get(store[sid].was_current, p, 0) + SKEW_TOLERANCE


\* The requests of one session around its completion.
MaxSynthesisTokens == 2
\* requests suspended between their read and their write at one time
MaxInFlight == 2

InFlight ==
    Cardinality({r \in SynthesisRoutes : editing[r].active})
    + (IF synth.active THEN 1 ELSE 0) + (IF pending.active THEN 1 ELSE 0)

InitComplete == InitSession({Config(DefaultWeights, FALSE)})

NextComplete ==
    \/ \E team \in Teams : init_session(team, "")
    \/ \E sid \in DOMAIN store :
            /\ 1 \notin DOMAIN store[sid].phases
            /\ InFlight < MaxInFlight
            /\ submit_phase(sid, 1, <<PhaseResponse(QuestionIds[1], "long", FALSE)>>)
    \/ \E u \in JudgeUsage : judge_returns(90, u)
    \/ \E sid \in DOMAIN store : start_phase(sid, 1, NoPhase, NoTime, <<>>)
    \/ \E sid \in DOMAIN store : save_hint(sid, 1, QuestionIds[1])
    \/ \E sid \in DOMAIN store, regenerate \in BOOLEAN :
            /\ InFlight < MaxInFlight
            /\ curate_prompt(sid, regenerate)
    \/ \E usage \in {0, 2} :
            /\ editing["curate_prompt"].active
            /\ usage = 0 \/ editing["curate_prompt"].session.total_tokens + usage <= MaxSynthesisTokens
            /\ curate_prompt_done(usage)
    \/ \E sid \in DOMAIN store : InFlight < MaxInFlight /\ final_synthesis(sid)
    \/ final_synthesis_done
    \/ \E sid \in DOMAIN store : InFlight < MaxInFlight /\ submit_pitch_image(sid)
    \/ \E usage \in {0, 2} :
            /\ editing["submit_pitch_image"].active
            /\ usage = 0 \/ editing["submit_pitch_image"].session.total_tokens + usage <= MaxSynthesisTokens
            /\ submit_pitch_image_done(usage)
    \/ submit_pitch_image_fails

SpecComplete == InitComplete /\ [][NextComplete]_vars

\* One session-store operation after the other, each run of the database
\* action ending in any of the modelled ways.
InitStore ==
    /\ CallsIdle
    /\ BreakerIdle
    /\ ScoreIdle
    /\ SessionIdle
    /\ now = 0

NextStore ==
    \/ \E op \in StoreOps : db_call(op)
    \/ \E outcome \in UNION {DbOutcomes(op) : op \in StoreOps} : db_result(outcome)
    \/ db_wake

SpecStore == InitStore /\ [][NextStore]_vars

(***************************************************************************)
(* Circuit breaker claims (SpecCB).                                        *)
(***************************************************************************)

\* C1: can_execute() returns true while fewer than failure_threshold
\* consecutive failures have been recorded, and after failure_threshold
\* consecutive failures every can_execute() made before recovery_timeout has
\* elapsed since the last recorded failure returns false.
C1_OpensAfterThreshold ==
    cbOp = "can_execute" =>
        /\ cbConsecutive < circuit.failure_threshold => cbRet = TRUE
        /\ ( /\ cbConsecutive >= circuit.failure_threshold
             /\ now - circuit.last_failure_time < circuit.recovery_timeout )
           => cbRet = FALSE

C1_Witness ==
    /\ cbOp = "can_execute"
    /\ cbConsecutive >= circuit.failure_threshold
    /\ circuit.failure_threshold >= 2
    /\ now - circuit.last_failure_time < circuit.recovery_timeout
    /\ cbRet = FALSE

\* C2 (as claimed): a can_execute() call made while the breaker is already
\* half_open returns false, so that only the call that moved the breaker to
\* half_open is admitted.
C2_SingleProbe ==
    (cbOp = "can_execute" /\ cbPrev = "half_open") => cbRet = FALSE

\* a second caller is admitted while the probe is still outstanding
C2_SecondProbeAdmitted ==
    /\ cbOp = "can_execute"
    /\ cbPrev = "half_open"
    /\ circuit.state = "half_open"
    /\ cbRet = TRUE

\* C3: in half_open, record_success() closes the breaker with the counter at
\* 0; record_failure() reopens it and restarts the cooldown, so can_execute()
\* is false until recovery_timeout has elapsed since that failure.
C3_HalfOpenOutcome ==
    /\ (cbOp = "record_success" /\ cbPrev = "half_open")
          => (circuit.state = "closed" /\ circuit.failures = 0)
    /\ (cbOp = "record_failure" /\ cbPrev = "half_open")
          => (circuit.state = "open" /\ circuit.last_failure_time = now)
    /\ ( /\ cbOp = "can_execute"
         /\ cbProbeFailed # NoTime
         /\ now - cbProbeFailed < circuit.recovery_timeout )
       => cbRet = FALSE

C3_Witness ==
    /\ cbOp = "can_execute"
    /\ cbProbeFailed # NoTime
    /\ cbProbeFailed > 0
    /\ now > cbProbeFailed
    /\ now - cbProbeFailed < circuit.recovery_timeout
    /\ cbRet = FALSE

(***************************************************************************)
(* Submission claims (SpecHint, SpecResubmit).                             *)
(***************************************************************************)
HintFlagStored(session, p, qid) ==
    /\ p \in DOMAIN session.phases
    /\ \E i \in 1..Len(session.phases[p].responses) :
          /\ session.phases[p].responses[i].question_id = qid
          /\ session.phases[p].responses[i].hint_used

\* C4 (as claimed): every hint flag that save_hint committed while
\* submit_phase was waiting for the judge is still in the stored session once
\* submit_phase has persisted its result, for the submitted phase and for any
\* other phase.
C4_HintSurvivesSubmit ==
    (resp.op = "submit_phase" /\ resp.kind = "judged") =>
        \A h \in resp.hints_during : HintFlagStored(store[resp.sid], h[1], h[2])

\* a hint saved for the submitted phase during the judge call is gone, while
\* one saved for the other phase is kept
C4_HintOverwritten ==
    /\ resp.op = "submit_phase"
    /\ resp.kind = "judged"
    /\ <<resp.phase, QuestionIds[1]>> \in resp.hints_during
    /\ ~HintFlagStored(store[resp.sid], resp.phase, QuestionIds[1])
    /\ \E p \in PhaseNumbers \ {resp.phase} :
          /\ <<p, QuestionIds[1]>> \in resp.hints_during
          /\ HintFlagStored(store[resp.sid], p, QuestionIds[1])

\* C5: an identical submission of a passed phase does not reach the judge and
\* leaves the persisted session (phases, history, phase_scores, total_score,
\* total_tokens, current_phase) as it was before the call.
C5_ResubmitLeavesSession ==
    (resp.op = "submit_phase" /\ resp.identical_passed) =>
        /\ resp.kind \in {"stored", "max_retries"}
        /\ ~pending.active
        /\ store[resp.sid] = resp.before

C5_Witness ==
    /\ resp.op = "submit_phase"
    /\ resp.identical_passed
    /\ resp.kind = "stored"
    /\ Len(resp.before.phases[resp.phase].history) >= 1
    /\ store[resp.sid] = resp.before

\* C6 (as claimed): an identical submission of a passed phase returns the
\* stored result, passed=true with the stored ai_score and phase_score and the
\* session total, after any number of earlier attempts on the phase.
C6_ResubmitReturnsStored ==
    (resp.op = "submit_phase" /\ resp.identical_passed
        /\ resp.kind \in {"stored", "max_retries"}) =>
        /\ resp.passed = TRUE
        /\ resp.ai_score = resp.before.phases[resp.phase].metrics.ai_score
        /\ resp.phase_score = resp.before.phases[resp.phase].metrics.weighted_score
        /\ resp.total_score = _db_to_domain(resp.before).total_score

\* the phase passed on its last allowed attempt; the same answers again are
\* answered by the max-retries gate
C6_GateAnswersFirst ==
    /\ resp.op = "submit_phase"
    /\ resp.identical_passed
    /\ resp.kind = "max_retries"
    /\ resp.passed = FALSE
    /\ resp.before.phases[resp.phase].metrics.weighted_score > 0
    /\ resp.phase_score = 0

(***************************************************************************)
(* Retry wrapper claims (SpecRetry).                                       *)
(***************************************************************************)
RetryDone(c) == rt[c].pc \in {"returned", "raised"}

RetryCounts(c) ==
    /\ rt[c].invoked <= rtcfg.max_retries + 1
    /\ rt[c].pc = "returned" => (rt[c].invoked = rt[c].failed + 1 /\ rt[c].error = "none")
    /\ (rt[c].pc = "raised" /\ rt[c].error = "retryable")
          => (rt[c].failed = rtcfg.max_retries + 1 /\ rt[c].invoked = rt[c].failed)
    /\ (rt[c].pc = "raised" /\ rt[c].error = "fatal") => rt[c].invoked = rt[c].failed + 1
    /\ (rt[c].pc = "raised" /\ rt[c].error = "circuit_open") => rt[c].invoked = 0
    /\ rt[c].pc = "sleeping" => rt[c].invoked = rt[c].failed

\* C14: a call through retry_with_backoff(max_retries=n) terminates and
\* invokes the function at most n+1 times: it returns at the first success,
\* raises the last error after n+1 retryable failures, and raises an error
\* outside the retryable set right after the failing attempt.
C14_RetryTerminates ==
    /\ [](\A c \in Callers : RetryCounts(c))
    /\ \A c \in Callers : (rt[c].pc \in {"running", "sleeping"}) ~> RetryDone(c)

C14_Witness ==
    \E c \in Callers :
        /\ rt[c].pc = "raised"
        /\ rt[c].error = "retryable"
        /\ rtcfg.max_retries = MaxRetryBudget
        /\ rt[c].invoked = MaxRetryBudget + 1

\* C15 (as claimed): while the bound breaker is open and its cooldown is
\* running, the wrapper never starts the wrapped function, neither as the
\* first attempt of a call nor as a retry of a call already in progress.
C15_NoCallWhileOpen ==
    \A c \in Callers : ~rt[c].invoked_open

\* a retry is made although the call's own failure has just opened the breaker
C15_RetryWhileOpen ==
    \E c \in Callers :
        /\ rtcfg.guarded
        /\ rt[c].pc = "running"
        /\ rt[c].attempt >= 1
        /\ BreakerRejecting(circuit, now)
        /\ rt[c].invoked_open

\* C30: the state of a breaker changes only along closed -> open,
\* open -> half_open, half_open -> closed and half_open -> open; it never
\* goes from open to closed without passing through half_open.
C30_LegalTransitions ==
    [][\/ circuit'.state = circuit.state
       \/ <<circuit.state, circuit'.state>> \in
             {<<"closed", "open">>, <<"open", "half_open">>,
              <<"half_open", "closed">>, <<"half_open", "open">>}]_vars

\* C30, the failing case: the only caller of a wrapper whose breaker opens at
\* the first failure has failed, retried and returned: its record_success
\* closed the open breaker, and nobody called can_execute in between.
C30_ClosedStraightFromOpen ==
    \E c \in Callers :
        /\ rtcfg.guarded
        /\ circuit.failure_threshold = 1
        /\ rt[c].pc = "returned"
        /\ rt[c].failed >= 1
        /\ circuit.state = "closed"
        /\ \A d \in Callers \ {c} : rt[d] = NoCall

\* C31: every attempt made by a wrapper bound to a breaker reports exactly
\* one outcome to it, record_success when the wrapped function returns and
\* record_failure when it raises any error, retryable or not; so a breaker
\* that admitted a probe in half_open has left half_open once the probe call
\* has finished.
C31_EveryAttemptReported ==
    [][\A c \in Callers :
          rtcfg.guarded /\ rt[c].pc = "running" /\ rt'[c].pc # "running" =>
              /\ rt'[c].pc = "returned" =>
                    circuit'.failures = 0 /\ circuit'.state = "closed"
              /\ rt'[c].pc \in {"sleeping", "raised"} =>
                    /\ circuit'.failures = circuit.failures + 1
                    /\ circuit'.last_failure_time = now
              /\ circuit.state = "half_open" => circuit'.state # "half_open"]_vars

\* C31, the failing case: the probe admitted in half_open raised an error
\* outside the wrapper's exceptions tuple; the call is over and the breaker
\* is still half_open, with the failure count the probe found.
C31_ProbeUnreported ==
    \E c \in Callers :
        /\ rtcfg.guarded
        /\ rt[c].pc = "raised"
        /\ rt[c].error = "fatal"
        /\ circuit.state = "half_open"
        /\ circuit.failures = circuit.failure_threshold
        /\ \A d \in Callers \ {c} : rt[d] = NoCall

\* the ai_retry preset (resilience.py 240-245), in seconds
AI_RETRY_MAX_RETRIES == 2
AI_RETRY_BASE_DELAY == 2
AI_RETRY_MAX_DELAY == 10

\* min(max_delay, base_delay * exponential_base^k), written out
ClaimedDelay(base_delay, max_delay, k) ==
    IF base_delay * EXPONENTIAL_BASE ^ k <= max_delay
    THEN base_delay * EXPONENTIAL_BASE ^ k
    ELSE max_delay

StoredPhase(sid, p) ==
    IF sid \in DOMAIN store /\ p \in DOMAIN store[sid].phases
    THEN store[sid].phases[p] ELSE NoPhaseData

Judged_status(pdata) == pdata.status \in {"passed", "failed"}

\* C21: history holds the metrics of the earlier judged attempts in
\* submission order and nothing else: the i-th entry is the attempt made with
\* i-1 retries, the latest attempt is only in metrics, and
\* metrics.retries = len(history); a judged submission appends the metrics it
\* supersedes exactly when the stored attempt was passed or failed, and no
\* start_phase, save_hint or refused submission touches history or metrics.
C21_HistoryOfAttempts ==
    /\ [](\A sid \in DOMAIN store : \A p \in DOMAIN store[sid].phases :
            LET pd == store[sid].phases[p]
            IN /\ \A i \in 1..Len(pd.history) : pd.history[i].retries = i - 1
               /\ Judged_status(pd) => pd.metrics.retries = Len(pd.history)
               /\ ~Judged_status(pd) => pd.history = <<>>)
    /\ [][\A sid \in DOMAIN store : \A p \in PhaseNumbers :
            LET old == StoredPhase(sid, p)
                new == store'[sid].phases[p]
            IN p \in DOMAIN store'[sid].phases =>
                 IF resp'.op = "submit_phase" /\ resp'.kind = "judged"
                    /\ resp'.sid = sid /\ resp'.phase = p
                 THEN /\ Judged_status(new)
                      /\ new.history = IF Judged_status(old)
                                       THEN Append(old.history, old.metrics)
                                       ELSE old.history
                 ELSE /\ new.history = old.history
                      /\ new.metrics = old.metrics
                      /\ new.status \in {old.status, "in_progress"}]_vars

\* C21, the case: a third judged attempt, with a hint saved and the phase
\* re-entered along the way.
C21_Witness ==
    \E sid \in DOMAIN store :
        /\ 1 \in DOMAIN store[sid].phases
        /\ Len(store[sid].phases[1].history) = 2
        /\ store[sid].phases[1].metrics.retries = 2
        /\ store[sid].phases[1].history[1] # store[sid].phases[1].history[2]
        /\ \E i \in 1..Len(store[sid].phases[1].responses) :
              store[sid].phases[1].responses[i].hint_used

\* attempts of a phase that were judged: the superseded ones and the stored one
AttemptsMade(pdata) == Len(pdata.history) + (IF Judged_status(pdata) THEN 1 ELSE 0)

\* C22: a submission for a phase with more than MAX_RETRIES judged attempts
\* is answered as a normal response with passed = false, ai_score = 0,
\* phase_score = 0 and a can_proceed flag; the judge is not called and the
\* stored session is left as it was.
C22_MaxRetriesRefused ==
    [][(/\ resp'.op = "submit_phase"
        /\ resp'.kind \notin {"judged", "error"}
        /\ AttemptsMade(StoredPhase(resp'.sid, resp'.phase)) > MAX_RETRIES)
       => /\ resp'.kind = "max_retries"
          /\ resp'.passed = FALSE
          /\ resp'.ai_score = 0
          /\ resp'.phase_score = 0
          /\ resp'.can_proceed \in BOOLEAN
          /\ resp'.total_score = store[resp'.sid].total_score
          /\ store' = store
          /\ pending' = pending
          /\ ~pending'.active]_vars

\* C22, the case: the fifth submission of a phase, with the session as the
\* fourth judged attempt left it.
C22_Witness ==
    /\ resp.op = "submit_phase"
    /\ resp.kind = "max_retries"
    /\ resp.retries = MAX_RETRIES + 1
    /\ Len(store[resp.sid].phases[resp.phase].history) = MAX_RETRIES
    /\ store[resp.sid] = resp.before
    /\ ~pending.active

\* len(history) + (1 if status in {passed, failed} else 0) of a stored phase
CompletedTrials(pdata) ==
    IF pdata.status \in {"passed", "failed"} THEN Len(pdata.history) + 1
    ELSE Len(pdata.history)

\* C32: the retries value that submit_phase compares against MAX_RETRIES,
\* passes to the mercy rule and uses for the retry penalty is
\* len(history) + 1 when the stored status is passed or failed and
\* len(history) otherwise; it is 0 for a phase with no stored data or with
\* only an in-progress draft.
C32_RetriesValue ==
    [][resp'.op = "submit_phase" /\ (resp' # resp \/ pending' # pending) =>
          LET old == StoredPhase(resp'.sid, resp'.phase)
              new == store'[resp'.sid].phases[resp'.phase]
              expected == CompletedTrials(old)
          IN /\ resp'.kind # "error" => resp'.retries = expected
             /\ old.status \in {"absent", "in_progress"} => expected = 0
             /\ resp'.kind = "max_retries" <=> (resp'.kind # "error" /\ ~pending.active /\ expected > MAX_RETRIES)
             /\ resp'.kind = "judged" =>
                   /\ new.metrics.retries = expected
                   /\ resp'.passed = (determine_pass_threshold(resp'.ai_score, expected)
                                         \/ cfg.allow_fail_proceed)
                   /\ new.metrics.weighted_score =
                         calculate_phase_score(resp'.ai_score, expected,
                             new.metrics.duration_seconds, TokenCount(new.responses),
                             PhaseWeight(resp'.phase), PhaseTimeLimit(resp'.phase),
                             new.metrics.hint_penalty).weighted_score]_vars

\* C32, the case: the fourth judged attempt of a phase, scored with three
\* retries.
C32_Witness ==
    /\ resp.op = "submit_phase"
    /\ resp.kind = "judged"
    /\ resp.retries = 3
    /\ Len(StoredPhase(resp.sid, resp.phase).history) = 3
    /\ StoredPhase(resp.sid, resp.phase).metrics.retries = 3
    /\ Len(StoredPhase(resp.sid, resp.phase).responses) = 1

\* C35: a submit_phase request whose judge call timed out or raised leaves
\* the stored session exactly as it was, in the step up to the call and in
\* the step that answers with the error, so the phase's retries count is
\* what it was when the request read it.
C35_FailedCallWritesNothing ==
    [][(/\ resp'.op = "submit_phase"
        /\ resp'.kind \in {"judge_called", "error"}
        /\ pending' # pending)
          => /\ store' = store
             /\ resp'.kind = "error" =>
                   _get_retry_info(get_session(resp'.sid), resp'.phase) = resp'.retries]_vars

\* the judge failed on a second attempt and the phase still counts one
C35_Witness ==
    /\ resp.op = "submit_phase"
    /\ resp.kind = "error"
    /\ resp.retries = 1
    /\ resp.phase \in DOMAIN store[resp.sid].phases
    /\ Len(store[resp.sid].phases[resp.phase].history) = 0
    /\ _get_retry_info(get_session(resp.sid), resp.phase) = 1

\* C36: with one submit_phase request of a session in progress at a time,
\* every phase has at most MAX_RETRIES + 1 scored attempts (the stored one
\* and those in its history), so its history never holds more than
\* MAX_RETRIES entries, and the judge is never called for an attempt beyond
\* the fourth.
C36_AttemptsBounded ==
    /\ \A sid \in DOMAIN store : \A p \in DOMAIN store[sid].phases :
           /\ Len(store[sid].phases[p].history) <= MAX_RETRIES
           /\ RetriesOfStatus(store[sid].phases[p]) <= MAX_RETRIES + 1
    /\ pending.active => pending.retries <= MAX_RETRIES

\* a fifth submission was refused with three attempts in the history
C36_Witness ==
    /\ resp.op = "submit_phase"
    /\ resp.kind = "max_retries"
    /\ Len(store[resp.sid].phases[resp.phase].history) = MAX_RETRIES
    /\ store[resp.sid].phases[resp.phase].status \in {"passed", "failed"}

(***************************************************************************)
(* Navigation claims (SpecNavigate).                                       *)
(***************************************************************************)
\* a step of start_phase (every other handler answers with its own op, and
\* the clock stands still during a handler)
StartPhaseStep == resp'.op = "start_phase" /\ now' = now

\* what every start_phase does to the entered phase and to the phases that
\* are neither entered nor left
EnterFrame(pre, post, p, l) ==
    /\ post.phase_start_times[p] = now
    /\ post.current_phase = p
    /\ resp'.elapsed_seconds = post.phase_elapsed_seconds[p]
    /\ \A q \in PhaseNumbers \ {p, l} :
          /\ q \in DOMAIN post.phase_elapsed_seconds
                <=> q \in DOMAIN pre.phase_elapsed_seconds
          /\ q \in DOMAIN pre.phase_elapsed_seconds =>
                post.phase_elapsed_seconds[q] = pre.phase_elapsed_seconds[q]

StoredFailed(pre, p) == p \in DOMAIN pre.phases /\ pre.phases[p].status = "failed"

\* C23 as stated: start_phase(p) sets the accumulated time of p to 0 exactly
\* when the stored status of p is failed or p has no accumulated entry, and
\* otherwise leaves it unchanged; it stamps the start time, sets
\* current_phase, returns the accumulated value and changes no accumulated
\* time other than that of the leaving phase.
C23_EnterPhaseResets ==
    [][StartPhaseStep =>
         LET pre == store[resp'.sid]
             post == store'[resp'.sid]
             p == resp'.phase
         IN /\ EnterFrame(pre, post, p, resp'.leaving)
            /\ post.phase_elapsed_seconds[p] =
                  IF StoredFailed(pre, p) \/ p \notin DOMAIN pre.phase_elapsed_seconds
                  THEN 0 ELSE pre.phase_elapsed_seconds[p]]_vars

\* C23 as amended: the same, where p is not itself the leaving phase with a
\* reported time; where it is, the reported (or capped) time is stored first:
\* a failed p is still reset to 0, any other p keeps the time just stored.
C23_EnterPhaseAfterLeaving ==
    [][StartPhaseStep =>
         LET pre == store[resp'.sid]
             post == store'[resp'.sid]
             p == resp'.phase
             left_now == resp'.leaving = p /\ resp'.report # NoTime
         IN /\ EnterFrame(pre, post, p, resp'.leaving)
            /\ post.phase_elapsed_seconds[p] =
                  IF StoredFailed(pre, p) THEN 0
                  ELSE IF left_now
                       THEN IF resp'.last_start = NoTime THEN resp'.report
                            ELSE Min(resp'.report,
                                     IF resp'.report - resp'.old_total
                                           > (now - resp'.last_start) + SKEW_TOLERANCE
                                     THEN resp'.old_total + (now - resp'.last_start)
                                     ELSE resp'.report)
                       ELSE IF p \notin DOMAIN pre.phase_elapsed_seconds THEN 0
                            ELSE pre.phase_elapsed_seconds[p]]_vars

\* C23, the case: a failed phase with time on its clock is entered again and
\* starts from 0 at the current time.
C23_Witness ==
    /\ resp.op = "start_phase"
    /\ StoredFailed(store[resp.sid], resp.phase)
    /\ resp.leaving = resp.phase
    /\ resp.old_total > 0
    /\ resp.elapsed_seconds = 0
    /\ store[resp.sid].phase_elapsed_seconds[resp.phase] = 0
    /\ store[resp.sid].phase_start_times[resp.phase] = now
    /\ now > 0

\* C24: neither start_phase with a draft for the leaving phase nor save_hint
\* changes the responses, metrics, status or score of a phase that is passed.
C24_PassedPhaseFrozen ==
    [][(resp'.op \in {"start_phase", "save_hint"} /\ now' = now) =>
         \A q \in PhaseNumbers :
            (StoredPhase(resp'.sid, q).status = "passed") =>
               /\ store'[resp'.sid].phases[q] = store[resp'.sid].phases[q]
               /\ store'[resp'.sid].phase_scores[q] = store[resp'.sid].phase_scores[q]]_vars

\* C24, the failing case: a phase passed without a hint carries a hint flag
\* after save_hint.
C24_HintOnPassedPhase ==
    /\ resp.op = "save_hint"
    /\ StoredPhase(resp.sid, resp.phase).status = "passed"
    /\ StoredPhase(resp.sid, resp.phase).metrics.hint_penalty = 0
    /\ \E i \in 1..Len(StoredPhase(resp.sid, resp.phase).responses) :
          StoredPhase(resp.sid, resp.phase).responses[i].hint_used

(***************************************************************************)
(* Evaluation pipeline claims (SpecPipeline).                              *)
(***************************************************************************)
\* the judge answered the stage with a text that neither parse pass accepts
Unparseable(answer) == ~answer.raises /\ answer.form \in {"prose", "not_an_object"}

\* a stage that ran had its judge call raise
SomeCallRaised(answers) ==
    \/ answers.critic.raises
    \/ answers.verdict.raises
    \/ answers.image /\ answers.visual.raises

\* the run in pl is the one that produced the response in resp
RunAnswered ==
    /\ pl.ran
    /\ resp.op = "submit_phase"
    /\ resp.kind \in {"judged", "error"}

C26_UsageSummedOnce ==
    /\ [](pl.ran /\ ~pl.out.raised =>
            /\ pl.out.usage.input_tokens =
                  pl.answers.critic.input_tokens + pl.answers.verdict.input_tokens
                  + (IF pl.answers.image THEN pl.answers.visual.input_tokens ELSE 0)
            /\ pl.out.usage.output_tokens =
                  pl.answers.critic.output_tokens + pl.answers.verdict.output_tokens
                  + (IF pl.answers.image THEN pl.answers.visual.output_tokens ELSE 0))
    /\ [][pending.active /\ ~pending'.active /\ resp'.kind = "judged" =>
            store'[resp'.sid].total_tokens =
                store[resp'.sid].total_tokens
                + pl.answers.critic.input_tokens + pl.answers.critic.output_tokens
                + pl.answers.verdict.input_tokens + pl.answers.verdict.output_tokens
                + (IF pl.answers.image
                   THEN pl.answers.visual.input_tokens + pl.answers.visual.output_tokens
                   ELSE 0)]_vars

\* C26, the case: a submission with an image was judged after all three
\* stages answered, and the session's tokens are those of the three stages.
C26_Witness ==
    /\ RunAnswered
    /\ resp.kind = "judged"
    /\ pl.answers.image
    /\ pl.out.ran = {"critic", "verdict", "visual"}
    /\ store[resp.sid].total_tokens = 333

\* C27: when the judge pipeline fails for a submission, submit_phase answers
\* with a labelled provisional result whose score is low but not zero,
\* instead of an error response.
C27_ProvisionalOnFailure ==
    RunAnswered /\ pl.out.raised =>
        /\ resp.kind = "judged"
        /\ pl.out.provisional
        /\ resp.ai_score > 0

\* C27, the case: the verdict call raised and the submission was answered
\* with an error.
C27_Witness ==
    /\ RunAnswered
    /\ pl.answers.verdict.raises
    /\ pl.out.status = HTTP_ERROR
    /\ resp.kind = "error"

\* C39: the score a run of evaluate_phase returns.  The verdict's score and
\* the visual analyst's score are in [0, 1]; with image evidence the run
\* calls the visual analyst and returns the verdict's score plus
\* (visual_score - 0.5) * 0.2, clamped to [0, 1], which is within 0.1 of the
\* verdict's score; without image evidence the visual analyst is not called
\* and the verdict's score is returned.  (Hundredths; the visual scores of
\* SpecMerge make the modifier a whole number of hundredths.)
C39_VisualModifier ==
    (pl.ran /\ ~pl.out.raised) =>
        LET verdict_score == run_lead_partner_agent(pl.answers.verdict).score
            visual_score == evaluate_visual_asset(pl.answers.visual).score
            modified == verdict_score + (visual_score - 50) \div 5
            diff == pl.out.score - verdict_score
        IN /\ verdict_score \in 0..100
           /\ IF pl.answers.image
              THEN /\ "visual" \in pl.out.ran
                   /\ visual_score \in 0..100
                   /\ (visual_score - 50) % 5 = 0
                   /\ pl.out.score = (IF modified < 0 THEN 0
                                      ELSE IF modified > 100 THEN 100 ELSE modified)
                   /\ diff \in -10..10
              ELSE /\ "visual" \notin pl.out.ran
                   /\ pl.out.score = verdict_score

\* a verdict of 82 and a visual score of 70, both written as percentages,
\* give 0.86, the ai_score of the judged submission
C39_Witness ==
    /\ pl.ran
    /\ ~pl.out.raised
    /\ pl.answers.image
    /\ pl.answers.verdict.score = 8200
    /\ pl.answers.visual.form = "json"
    /\ pl.answers.visual.score = 7000
    /\ pl.out.score = 86
    /\ resp.op = "submit_phase"
    /\ resp.kind = "judged"
    /\ resp.ai_score = 86

(***************************************************************************)
(* Session start claims (SpecInit).                                        *)
(***************************************************************************)
\* the team's sessions created last
MostRecent(team) ==
    {s \in TeamSessions(team) :
        \A o \in TeamSessions(team) : store[o].created_at <= store[s].created_at}

\* C40: init for a team that has a session, asking for no usecase or for
\* the usecase of its most recently created session, answers with that
\* session, whose current_phase and phase scores it leaves alone, and stores
\* no new session; in every other case (no session, or another usecase) it
\* stores one new session at phase 1 and answers with it.
C40_InitResumesLatest ==
    [][(resp'.op = "init" /\ now' = now /\ vars' # vars) =>
         LET team == resp'.team
             resumes ==
                 /\ TeamSessions(team) # {}
                 /\ \/ resp'.usecase_id = ""
                    \/ \E s \in MostRecent(team) : store[s].usecase = resp'.usecase_id
         IN IF resumes
            THEN /\ ~resp'.created
                 /\ resp'.sid \in MostRecent(team)
                 /\ DOMAIN store' = DOMAIN store
                 /\ store'[resp'.sid].current_phase = store[resp'.sid].current_phase
                 /\ store'[resp'.sid].phase_scores = store[resp'.sid].phase_scores
            ELSE /\ resp'.created
                 /\ resp'.sid \notin DOMAIN store
                 /\ DOMAIN store' = DOMAIN store \cup {resp'.sid}
                 /\ store'[resp'.sid].team_id = team
                 /\ store'[resp'.sid].current_phase = 1
                 /\ \A s \in DOMAIN store : store'[s] = store[s]]_vars

\* the team has two sessions and an init without usecase was answered with
\* the later one, which is past phase 1 and holds a score
C40_Witness ==
    /\ resp.op = "init"
    /\ ~resp.created
    /\ resp.usecase_id = ""
    /\ Cardinality(TeamSessions(resp.team)) = 2
    /\ \E o \in TeamSessions(resp.team) : store[o].created_at < store[resp.sid].created_at
    /\ store[resp.sid].current_phase = 2
    /\ DOMAIN store[resp.sid].phase_scores # {}

(***************************************************************************)
(* Session store claims (SpecStore).                                       *)
(***************************************************************************)
\* the failures of the running operation that were followed by another run
RetriedFailures == SubSeq(db.failed, 1, Len(db.slept))

\* C28: a session-store operation runs its database action at most 4
\* times; it retries, with delays 0.5 s, 1 s and 2 s, only when the failure
\* is a lock/busy contention error, surfaces the error after the fourth such
\* failure, and surfaces any other error at once.
C28_RetriesOnContentionOnly ==
    /\ db.runs <= 4
    /\ db.slept = SubSeq(<<5, 10, 20>>, 1, Len(db.slept))
    /\ \A i \in 1..Len(RetriedFailures) : RetriedFailures[i].contention
    /\ db.pc = "raised" =>
          LET last == db.failed[Len(db.failed)]
          IN IF last.contention THEN db.runs = 4 ELSE Len(db.slept) = Len(db.failed) - 1

\* C28, the case: update_session failed with a disk error whose text holds
\* the word busy in a bound value, and the action was run again.
C28_DiskErrorRetried ==
    /\ db.op = "update_session"
    /\ db.runs = 2
    /\ ~db.failed[1].contention
    /\ db.slept = <<5>>

(***************************************************************************)
(* Completion claims (SpecComplete).                                       *)
(***************************************************************************)
\* C29: once a session's is_complete flag has been persisted as true it is
\* never persisted as false again, under any interleaving of start-phase,
\* save-hint, submit-phase, curate-prompt, final-synthesis and
\* submit-pitch-image requests on that session.
C29_CompleteIsTerminal ==
    [][\A sid \in DOMAIN store : store[sid].is_complete => store'[sid].is_complete]_vars

\* C29, the case: a curate-prompt request found the session complete when
\* it wrote, and the session it wrote is not complete.
C29_CompletionOverwritten ==
    /\ resp.op = "curate_prompt"
    /\ ~resp.cached
    /\ resp.before.is_complete
    /\ ~store[resp.sid].is_complete

(***************************************************************************)
(* Judge client claims (SpecJudge).                                        *)
(***************************************************************************)
\* C16: every judge call is guarded by a named circuit breaker: once
\* failure_threshold judge calls in a row have failed, no invoke_model
\* attempt is made until the cooldown window has elapsed.
C16_JudgeCallsGuarded ==
    \A c \in Callers : ~gc[c].after_streak

\* C16, the failing case: an invoke_model attempt made right after
\* failure_threshold failed calls, while the breaker has recorded nothing.
C16_AttemptDuringCooldown ==
    \E c \in Callers :
        /\ gc[c].pc = "invoking"
        /\ gc[c].after_streak
        /\ StreakRunning(now)
        /\ circuit.state = "closed"
        /\ circuit.failures = 0

\* C17 as stated: a call that the judge answers with an authorization or
\* credential error has made exactly one invoke_model attempt.
C17_AuthSingleAttempt ==
    \A c \in Callers : gc[c].error = "auth" => gc[c].invoked = 1

\* C17 as amended: when the judge answers an attempt with an authorization or
\* credential error, generate_content raises at once: it does not sleep and
\* makes no further invoke_model attempt, so the call has made one attempt
\* per index up to the one that was answered with the error.
C17_AuthNotRetried ==
    \A c \in Callers :
        gc[c].error = "auth" =>
            /\ gc[c].pc = "raised"
            /\ gc[c].wake_at = 0
            /\ gc[c].invoked = gc[c].attempt + 1
            /\ gc[c].slept = gc[c].attempt

\* C17, the case: the error arrives on the last attempt index, after two
\* retried failures.
C17_AuthOnLastAttempt ==
    \E c \in Callers :
        /\ gc[c].error = "auth"
        /\ gc[c].pc = "raised"
        /\ gc[c].attempt = JUDGE_MAX_RETRIES
        /\ gc[c].invoked = JUDGE_MAX_RETRIES + 1

\* C18: a call whose every attempt failed with a transient condition
\* (timeout, rate limit, 5xx) is raised after exactly 3 attempts with a sleep
\* between consecutive attempts; a call that succeeded made no attempt after
\* the successful one.
C18_TransientThreeAttempts ==
    \A c \in Callers :
        /\ (gc[c].pc = "raised" /\ gc[c].transient_only) =>
              /\ gc[c].invoked = JUDGE_MAX_RETRIES + 1
              /\ gc[c].slept = JUDGE_MAX_RETRIES
        /\ gc[c].pc = "returned" =>
              /\ gc[c].invoked = gc[c].attempt + 1
              /\ gc[c].slept = gc[c].attempt

\* C18, the failing case: a 5xx answer to the first attempt is raised at once.
C18_ServerErrorNotRetried ==
    \E c \in Callers :
        /\ gc[c].pc = "raised"
        /\ gc[c].error = "server_error"
        /\ gc[c].transient_only
        /\ gc[c].invoked = 1
        /\ gc[c].slept = 0

(***************************************************************************)
(* Worker pool claims (SpecPool).                                          *)
(***************************************************************************)
\* C19: a submit_phase request is answered within AI_OPERATION_TIMEOUT
\* seconds of calling evaluate_phase_async: with the pipeline's outcome, or,
\* when the 120 s are over, with TimeoutError, which submit_phase answers as
\* HTTP 504 without a score, whether the task was queued, running or retrying.
C19_TimeoutCeiling ==
    \A c \in Callers :
        ev[c].route = "submit" =>
            /\ ev[c].waiter = "waiting" =>
                  now <= ev[c].started + AI_OPERATION_TIMEOUT
            /\ ev[c].waiter = "timeout" =>
                  /\ ev[c].ended = ev[c].started + AI_OPERATION_TIMEOUT
                  /\ ev[c].status = HTTP_TIMEOUT
                  /\ ~ev[c].scored
                  /\ ev[c].timed_in \in {"queued", "running", "retrying"}
            /\ ev[c].waiter \in {"returned", "failed"} =>
                  /\ ev[c].ended <= ev[c].started + AI_OPERATION_TIMEOUT
                  /\ ev[c].status # HTTP_TIMEOUT
            /\ ev[c].scored => ev[c].waiter = "returned" /\ ev[c].status = HTTP_OK

\* C19, the case: one request timed out in the queue of the full pool,
\* another while its task slept between two attempts.
C19_Witness ==
    \E c, d \in Callers :
        /\ ev[c].waiter = "timeout" /\ ev[c].timed_in = "queued"
        /\ ev[c].status = HTTP_TIMEOUT
        /\ ev[d].waiter = "timeout" /\ ev[d].timed_in = "retrying"

\* C20: never more than 10 judge pipelines execute at once in the process,
\* for every route and also with abandoned tasks.
C20_AtMostTenPipelines ==
    Executing <= AI_POOL_WORKERS

\* C20, the failing case: every worker of the AI pool is busy and a
\* submit-phase-stream request runs its pipeline on the default executor.
C20_EleventhPipeline ==
    /\ PoolBusy = AI_POOL_WORKERS
    /\ \E c \in Callers : ev[c].route = "stream" /\ Executes(c)

(***************************************************************************)
(* Timer claim (SpecTimer).                                                *)
(***************************************************************************)

\* C7 (as claimed): after a start_phase call that names a leaving phase and a
\* client-reported total, the stored total of that phase is at most its
\* previous total plus the server time since the phase's recorded start (none
\* when no start is recorded) plus the 5-second tolerance.
C7_ElapsedBounded ==
    (resp.op = "start_phase" /\ resp.leaving # NoPhase /\ resp.report # NoTime) =>
        LET wall == IF resp.last_start = NoTime THEN 0 ELSE resp.at - resp.last_start
        IN  store[resp.sid].phase_elapsed_seconds[resp.leaving]
               <= resp.old_total + wall + SKEW_TOLERANCE

\* the client's value is stored for a phase that has no start time
C7_ReportTrusted ==
    /\ resp.op = "start_phase"
    /\ resp.leaving # NoPhase
    /\ resp.leaving # resp.phase
    /\ resp.last_start = NoTime
    /\ resp.report > SKEW_TOLERANCE
    /\ store[resp.sid].phase_elapsed_seconds[resp.leaving] = resp.report

\* with a start time recorded, an inflated report is capped at the wall clock
C7_ReportCapped ==
    /\ resp.op = "start_phase"
    /\ resp.leaving # NoPhase
    /\ resp.leaving # resp.phase
    /\ resp.last_start # NoTime
    /\ resp.at > resp.last_start
    /\ resp.report - resp.old_total > (resp.at - resp.last_start) + SKEW_TOLERANCE
    /\ store[resp.sid].phase_elapsed_seconds[resp.leaving]
          = resp.old_total + (resp.at - resp.last_start)

(***************************************************************************)
(* Scoring claims (SpecScore, SpecTotals).                                 *)
(***************************************************************************)

\* C8 (as claimed): for every weight w in (0,1] the weighted score lies in
\* [0, 1000*w]; rounding never lifts it above the phase's weight share.
C8_CapInvariant ==
    scOut.called =>
        /\ scOut.weighted_score >= 0
        /\ scOut.weighted_score * PointUnit * WeightUnit <= MaxPhaseScore(scIn.weight)

\* weight 0.3337: the clamp yields 333.7 and round() returns 334
C8_RoundedAboveShare ==
    /\ scOut.called
    /\ scIn.weight = 3337
    /\ scOut.weighted_score = 334

\* C11: determine_pass_threshold is true exactly when ai_score >= 0.65, or
\* retries >= 2 and ai_score >= 0.45: a score in [0.45, 0.65) fails at retries
\* 0 and 1 and passes from 2 on, a score below 0.45 never passes.
C11_PassThreshold ==
    scPass.called =>
        /\ scPass.passed
              = (scIn.ai_score >= 65 \/ (scIn.retries >= 2 /\ scIn.ai_score >= 45))
        /\ (scIn.ai_score >= 45 /\ scIn.ai_score < 65 /\ scIn.retries < 2)
              => scPass.passed = FALSE
        /\ (scIn.ai_score >= 45 /\ scIn.ai_score < 65 /\ scIn.retries >= 2)
              => scPass.passed = TRUE
        /\ scIn.ai_score < 45 => scPass.passed = FALSE

C11_Witness ==
    /\ scPass.called
    /\ scPass.passed
    /\ scIn.ai_score = 50
    /\ scIn.retries = 2

\* the least number of whole blocks of 600 s that cover the overtime
OvertimeBlocks(overtime) ==
    CHOOSE k \in 0..(overtime \div 600 + 1) :
        /\ 600 * k >= overtime
        /\ 600 * (k - 1) < overtime

\* C12: the time penalty is 0 up to the time limit and otherwise
\* min(150, 10 * ceil(overtime / 600)): 600 s over costs 10, 1200 s over costs
\* 20; it never decreases with the duration and never exceeds 150.
C12_TimePenalty ==
    scOut.called =>
        LET over == scIn.duration_seconds - scIn.time_limit
        IN  /\ over <= 0 => scOut.time_penalty = 0
            /\ over > 0 => scOut.time_penalty = Min(150, 10 * OvertimeBlocks(over))
            /\ over = 600 => scOut.time_penalty = 10
            /\ over = 1200 => scOut.time_penalty = 20
            /\ scOut.time_penalty <= 150
            /\ \A d \in Durations :
                  d <= scIn.duration_seconds =>
                     TimePenalty(d, scIn.time_limit) <= scOut.time_penalty

C12_Witness ==
    /\ scOut.called
    /\ scIn.duration_seconds - scIn.time_limit = 1200
    /\ scOut.time_penalty = 20

\* C13: weighted_score = round(clamp((ai_score*1000 - time_penalty
\* - retries*RETRY_PENALTY_POINTS - hint_penalty + efficiency_bonus) * w, 0,
\* 1000*w)) with a bonus of 5% of ai_score*1000 for 100..600 tokens and 0
\* otherwise; w=0.33, ai_score=1.0, 60 s of 300 s, no retries, 300 tokens and
\* no hints give 330.
C13_WeightedScoreFormula ==
    scOut.called =>
        LET base == scIn.ai_score * 1000
            bonus == IF scIn.token_count >= 100 /\ scIn.token_count <= 600
                     THEN (base * 5) \div 100 ELSE 0
            raw == base - scOut.time_penalty * 100
                     - scIn.retries * RETRY_PENALTY_POINTS * 100
                     - scIn.hint_penalty * 100 + bonus
            share == 1000 * scIn.weight * 100
            scaled == raw * scIn.weight
            clamped == IF scaled < 0 THEN 0 ELSE IF scaled > share THEN share ELSE scaled
            unit == 100 * 10000
            off == scOut.weighted_score * unit - clamped
            dist == IF off < 0 THEN -off ELSE off
        IN  /\ scOut.efficiency_bonus = bonus
            /\ scOut.efficiency_bonus >= 0
            /\ 2 * dist <= unit
            /\ 2 * dist = unit => scOut.weighted_score % 2 = 0
            /\ ( /\ scIn.weight = 3300 /\ scIn.ai_score = 100
                 /\ scIn.duration_seconds = 60 /\ scIn.retries = 0
                 /\ scIn.token_count = 300 /\ scIn.hint_penalty = 0 )
               => scOut.weighted_score = 330

C13_Witness ==
    /\ scOut.called
    /\ scIn.weight = 3300
    /\ scIn.ai_score = 100
    /\ scIn.duration_seconds = 60
    /\ scIn.retries = 0
    /\ scIn.token_count = 300
    /\ scIn.hint_penalty = 0
    /\ scOut.weighted_score = 330

C10_TotalRecomputed ==
    /\ calculate_total_score(EmptyDict) = 0
    /\ (resp.op = "submit_phase" /\ resp.kind = "judged") =>
          resp.total_score = Min(1000, TotalUnclamped(store[resp.sid].phase_scores))
    /\ \A sid \in DOMAIN store :
          /\ get_session(sid).total_score
                = Min(1000, TotalUnclamped(store[sid].phase_scores))
          /\ \A stale \in {0, 999, 5000} :
                _db_to_domain([store[sid] EXCEPT !.total_score = stale]).total_score
                   = Min(1000, TotalUnclamped(store[sid].phase_scores))

C10_Witness ==
    /\ resp.op = "submit_phase"
    /\ resp.kind = "judged"
    /\ TotalUnclamped(store[resp.sid].phase_scores) > 1000
    /\ resp.total_score = 1000
    /\ get_session(resp.sid).total_score = 1000

====
